---------------------------- MODULE Spec2Model ----------------------------
(***************************************************************************)
(* Model of the crawler service of zerx-lab/axon-doc:                      *)
(*   - JobManager (app/job_manager.py): the in-memory job registry and     *)
(*     its cooperative pause / resume / cancel protocol;                   *)
(*   - AdaptiveCrawler (app/adaptive_crawler.py): the multi-page crawl     *)
(*     loop and the single-page extraction with its retry loop;            *)
(*   - PageAnalyzer (app/analyzer.py) and ConfigManager                    *)
(*     (app/config_manager.py): inference and the strategy store.          *)
(* Confidences are percentages (0.7 is 70).                                *)
(***************************************************************************)
EXTENDS Integers, Sequences, FiniteSets, TLC

VARIABLES
    jobs,       \* JobManager._jobs: job id -> JobControl record, or NoJob
    events,     \* the asyncio.Event objects: event id -> is it set
    wpc,        \* per waiter: position inside wait_if_paused
    wjob,       \* per waiter: the job_id argument of its call
    wev,        \* per waiter: the pause_event captured under the lock
    wret,       \* per waiter: the value returned by its last call
    wsnap,      \* per waiter: the job's state at the moment of that return
    lastCall,   \* the last JobManager call: op, job, state before, result
    \* execute_full_site_crawl (app/main.py) and the crawl it runs
    req,        \* the request: user_id, kb_id, use_ai, webhook_url, pages
    db,         \* the durable crawl_jobs row: status, progress, pages_crawled, error
    bpc,        \* position of the background task
    cpc,        \* position of _do_crawl_full_site in its worker thread
    consumed,   \* page events pulled from the fetch engine's sequence
    curSuccess, \* raw_result.success of the page event in hand
    page_count, \* page_count of _do_crawl_full_site
    delivered,  \* the page events handed to on_page_crawled, in order
    results,    \* len(results) of _do_crawl_full_site
    pages_crawled,  \* pages_crawled of execute_full_site_crawl
    was_cancelled,  \* was_cancelled of execute_full_site_crawl
    error_message,  \* error_message of execute_full_site_crawl
    webhook,    \* the posts to webhook_url: payload, and whether it was sent
    lastCheck,  \* the page event for which should_stop was last evaluated
    observedStop,   \* the crawl loop has seen should_stop return True
    \* single-page extraction (AdaptiveCrawler._do_crawl_single) and the store
    rows,       \* table crawl_site_configs: row id -> row
    clients,    \* the extractions that may run (worker threads in use)
    max_retry,  \* AdaptiveSettings.max_retry
    api_key,    \* LLMSettings.api_key is configured
    runs,       \* extractions started so far
    xpc,        \* per extraction: position in _do_crawl_single
    xurl,       \* per extraction: the path of its url
    xforce,     \* per extraction: force_reanalyze
    cfg,        \* per extraction: the SiteConfig object in hand
    found,      \* per extraction: save_config's `existing` (0 for no row)
    saveRet,    \* per extraction: what its last save_config returned
    retry_count,    \* per extraction: retry_count of _crawl_with_retry
    nReanalyze, \* per extraction: reanalyze calls made in this run
    allInvalid, \* per extraction: every validation of this run failed
    result,     \* per extraction: what _do_crawl_single returned
    xmode,      \* per extraction: extraction_mode and preset
    xlog,       \* per extraction: what this run has called so far, in order
    accepted,   \* pages saved when the cancel endpoint first answered success
    succCalls,  \* per row id: completed record_success calls
    failCalls,  \* per row id: completed record_failure calls
    \* the pure functions called on their own
    call,       \* the last call: function, arguments, and the value returned
                \* (bool, int or str, by the function's return type)
    \* the registry's methods, statement by statement
    jobs_lock,  \* JobManager._jobs_lock: the caller that holds it, or "free"
    callers     \* per caller of a method: where it is in the method, the
                \* method and its job_id, the record it read, what it returns

regVars == <<jobs, events, wpc, wjob, wev, wret, wsnap, lastCall>>

jobVars == <<req, db, bpc, cpc, consumed, curSuccess, page_count, delivered,
             results, pages_crawled, was_cancelled, error_message, webhook,
             lastCheck, observedStop, accepted>>

storeVars == <<rows, succCalls, failCalls>>

xVars == <<clients, max_retry, api_key, runs, xpc, xurl, xforce, cfg, found,
           saveRet, retry_count, nReanalyze, allInvalid, result, xmode,
           xlog>>

fnVars == <<call>>

lockVars == <<jobs_lock, callers>>

vars == <<regVars, jobVars, storeVars, xVars, fnVars, lockVars>>

-----------------------------------------------------------------------------
(* JobManager *)

JobIds == {"j1", "j2"}

Waiters == {"w1"}

EventIds == 1 .. (Cardinality(JobIds) + Cardinality(Waiters))

RUNNING == "running"

PAUSED == "paused"

CANCELLED == "cancelled"

COMPLETED == "completed"

NoJob == [state |-> "absent", pause_event |-> 0]

\* the state of a job as get_job_state reports it ("absent" for None)
get_job_state(j) == jobs[j].state

\* an Event object no record and no waiter refers to (a new asyncio.Event)
NewEvent(j) ==
    CHOOSE e \in EventIds :
        /\ \A k \in JobIds \ {j} : jobs[k].pause_event # e
        /\ \A w \in Waiters : wpc[w] \in {"waiting", "timeout"} => wev[w] # e

Called(op, j, ret) ==
    [op |-> op, job_id |-> j, before |-> jobs[j].state, ret |-> ret]

\* is_job_cancelled answering False for a job that is not registered
is_job_cancelled_known(j) ==
    IF jobs[j] = NoJob THEN FALSE ELSE jobs[j].state = CANCELLED

is_job_cancelled(j) ==
    IF jobs[j] = NoJob THEN TRUE ELSE jobs[j].state = CANCELLED

is_job_paused(j) ==
    IF jobs[j] = NoJob THEN FALSE ELSE jobs[j].state = PAUSED

should_stop(j) == is_job_cancelled(j)

\* JobControl(job_id): state RUNNING, and __post_init__ sets the event
JobControl(e) == [state |-> RUNNING, pause_event |-> e]

\* register_job with a JobControl whose __post_init__ (lines 30-31) is absent
register_job_unset(j) ==
    LET e == NewEvent(j) IN
    /\ jobs' = [jobs EXCEPT ![j] = JobControl(e)]
    /\ events' = [events EXCEPT ![e] = FALSE]
    /\ lastCall' = Called("register_job", j, "None")
    /\ UNCHANGED <<wpc, wjob, wev, wret, wsnap>>

\* register_job that leaves a record that is already there as it is
register_job_keep(j) ==
    LET e == NewEvent(j) IN
    /\ IF jobs[j] # NoJob
       THEN UNCHANGED <<jobs, events>>
       ELSE /\ jobs' = [jobs EXCEPT ![j] = JobControl(e)]
            /\ events' = [events EXCEPT ![e] = TRUE]
    /\ lastCall' = Called("register_job", j, "None")
    /\ UNCHANGED <<wpc, wjob, wev, wret, wsnap>>

register_job(j) ==
    LET e == NewEvent(j) IN
    /\ jobs' = [jobs EXCEPT ![j] = JobControl(e)]
    /\ events' = [events EXCEPT ![e] = TRUE]
    /\ lastCall' = Called("register_job", j, "None")
    /\ UNCHANGED <<wpc, wjob, wev, wret, wsnap>>

unregister_job(j) ==
    /\ jobs' = [jobs EXCEPT ![j] = NoJob]
    /\ lastCall' = Called("unregister_job", j, "None")
    /\ UNCHANGED <<events, wpc, wjob, wev, wret, wsnap>>

\* cancel_job without line 117 (pause_event.set())
cancel_job_no_set(j) ==
    /\ IF jobs[j] = NoJob \/ jobs[j].state \in {CANCELLED, COMPLETED}
       THEN /\ lastCall' = Called("cancel_job", j, "False")
            /\ UNCHANGED <<jobs, events>>
       ELSE /\ jobs' = [jobs EXCEPT ![j].state = CANCELLED]
            /\ lastCall' = Called("cancel_job", j, "True")
            /\ UNCHANGED events
    /\ UNCHANGED <<wpc, wjob, wev, wret, wsnap>>

cancel_job(j) ==
    /\ IF jobs[j] = NoJob \/ jobs[j].state \in {CANCELLED, COMPLETED}
       THEN /\ lastCall' = Called("cancel_job", j, "False")
            /\ UNCHANGED <<jobs, events>>
       ELSE /\ jobs' = [jobs EXCEPT ![j].state = CANCELLED]
            /\ events' = [events EXCEPT ![jobs[j].pause_event] = TRUE]
            /\ lastCall' = Called("cancel_job", j, "True")
    /\ UNCHANGED <<wpc, wjob, wev, wret, wsnap>>

\* pause_job without line 137 (pause_event.clear())
pause_job_no_clear(j) ==
    /\ IF jobs[j] = NoJob \/ jobs[j].state # RUNNING
       THEN /\ lastCall' = Called("pause_job", j, "False")
            /\ UNCHANGED <<jobs, events>>
       ELSE /\ jobs' = [jobs EXCEPT ![j].state = PAUSED]
            /\ lastCall' = Called("pause_job", j, "True")
            /\ UNCHANGED events
    /\ UNCHANGED <<wpc, wjob, wev, wret, wsnap>>

pause_job(j) ==
    /\ IF jobs[j] = NoJob \/ jobs[j].state # RUNNING
       THEN /\ lastCall' = Called("pause_job", j, "False")
            /\ UNCHANGED <<jobs, events>>
       ELSE /\ jobs' = [jobs EXCEPT ![j].state = PAUSED]
            /\ events' = [events EXCEPT ![jobs[j].pause_event] = FALSE]
            /\ lastCall' = Called("pause_job", j, "True")
    /\ UNCHANGED <<wpc, wjob, wev, wret, wsnap>>

\* resume_job with the guard of line 152 letting a cancelled job through
resume_job_cancelled(j) ==
    /\ IF jobs[j] = NoJob \/ jobs[j].state \notin {PAUSED, CANCELLED}
       THEN /\ lastCall' = Called("resume_job", j, "False")
            /\ UNCHANGED <<jobs, events>>
       ELSE /\ jobs' = [jobs EXCEPT ![j].state = RUNNING]
            /\ events' = [events EXCEPT ![jobs[j].pause_event] = TRUE]
            /\ lastCall' = Called("resume_job", j, "True")
    /\ UNCHANGED <<wpc, wjob, wev, wret, wsnap>>

resume_job(j) ==
    /\ IF jobs[j] = NoJob \/ jobs[j].state # PAUSED
       THEN /\ lastCall' = Called("resume_job", j, "False")
            /\ UNCHANGED <<jobs, events>>
       ELSE /\ jobs' = [jobs EXCEPT ![j].state = RUNNING]
            /\ events' = [events EXCEPT ![jobs[j].pause_event] = TRUE]
            /\ lastCall' = Called("resume_job", j, "True")
    /\ UNCHANGED <<wpc, wjob, wev, wret, wsnap>>

mark_completed(j) ==
    /\ IF jobs[j] # NoJob
       THEN jobs' = [jobs EXCEPT ![j].state = COMPLETED]
       ELSE UNCHANGED jobs
    /\ lastCall' = Called("mark_completed", j, "None")
    /\ UNCHANGED <<events, wpc, wjob, wev, wret, wsnap>>

\* the methods that take _jobs_lock and write the registry
Methods ==
    {"register_job", "unregister_job", "cancel_job", "pause_job",
     "resume_job", "mark_completed"}

\* a method is called
lock_call(c, op, j) ==
    /\ callers[c].pc \in {"idle", "done"}
    /\ callers' = [callers EXCEPT ![c] =
                      [pc |-> "acquire", op |-> op, job_id |-> j,
                       job |-> NoJob, ret |-> "None"]]
    /\ UNCHANGED <<regVars, jobs_lock>>

\* a lock that any caller may take at any time
lock_ignored == TRUE

\* threading.Lock: it can be taken when no caller holds it
lock_free == jobs_lock = "free"

\* `with self._jobs_lock:` is entered
lock_acquire(c) ==
    /\ callers[c].pc = "acquire"
    /\ lock_free
    /\ jobs_lock' = c
    /\ callers' = [callers EXCEPT ![c].pc = "check"]
    /\ UNCHANGED regVars

\* what the method returns, given the record it read (lines 108-115,
\* 127-134, 145-152); register_job, unregister_job and mark_completed
\* return None
Decide(op, job) ==
    CASE op = "cancel_job" ->
            IF job = NoJob \/ job.state \in {CANCELLED, COMPLETED}
            THEN "False" ELSE "True"
      [] op = "pause_job" ->
            IF job = NoJob \/ job.state # RUNNING THEN "False" ELSE "True"
      [] op = "resume_job" ->
            IF job = NoJob \/ job.state # PAUSED THEN "False" ELSE "True"
      [] OTHER -> "None"

\* `self._jobs.get(job_id)` (or `job_id in self._jobs`) and the tests on
\* the record read
lock_check(c) ==
    /\ callers[c].pc = "check"
    /\ callers' = [callers EXCEPT
                      ![c].pc = "write",
                      ![c].job = jobs[callers[c].job_id],
                      ![c].ret = Decide(callers[c].op,
                                        jobs[callers[c].job_id])]
    /\ UNCHANGED <<regVars, jobs_lock>>

\* job.state = s, on the record that was read: the registry shows it when
\* the record is still the one stored under the id
SetState(j, job, s) ==
    IF jobs[j] # NoJob /\ jobs[j].pause_event = job.pause_event
    THEN [jobs EXCEPT ![j].state = s]
    ELSE jobs

\* the writes of the method, the return and the release of the lock
lock_write(c) ==
    /\ callers[c].pc = "write"
    /\ LET op == callers[c].op
           j == callers[c].job_id
           job == callers[c].job
           ret == callers[c].ret
       IN /\ CASE op = "register_job" ->
                    LET e == NewEvent(j) IN
                    /\ jobs' = [jobs EXCEPT ![j] = JobControl(e)]
                    /\ events' = [events EXCEPT ![e] = TRUE]
               [] op = "unregister_job" ->
                    /\ jobs' = IF job # NoJob
                               THEN [jobs EXCEPT ![j] = NoJob] ELSE jobs
                    /\ UNCHANGED events
               [] op = "cancel_job" /\ ret = "True" ->
                    /\ jobs' = SetState(j, job, CANCELLED)
                    /\ events' = [events EXCEPT ![job.pause_event] = TRUE]
               [] op = "pause_job" /\ ret = "True" ->
                    /\ jobs' = SetState(j, job, PAUSED)
                    /\ events' = [events EXCEPT ![job.pause_event] = FALSE]
               [] op = "resume_job" /\ ret = "True" ->
                    /\ jobs' = SetState(j, job, RUNNING)
                    /\ events' = [events EXCEPT ![job.pause_event] = TRUE]
               [] op = "mark_completed" /\ job # NoJob ->
                    /\ jobs' = SetState(j, job, COMPLETED)
                    /\ UNCHANGED events
               [] OTHER -> UNCHANGED <<jobs, events>>
          /\ lastCall' = [op |-> op, job_id |-> j, before |-> job.state,
                          ret |-> ret]
    /\ jobs_lock' = "free"
    /\ callers' = [callers EXCEPT ![c].pc = "done"]
    /\ UNCHANGED <<wpc, wjob, wev, wret, wsnap>>

\* wait_if_paused returns r: the waiter's result and the state it returned in
\* (the local pause_event dies with the call)
Returned(w, j, r) ==
    /\ wpc' = [wpc EXCEPT ![w] = "done"]
    /\ wret' = [wret EXCEPT ![w] = r]
    /\ wsnap' = [wsnap EXCEPT ![w] = jobs[j].state]
    /\ wev' = [wev EXCEPT ![w] = 1]

\* lines 182-188: the first check under the lock, capturing pause_event
wait_if_paused_enter(w, j) ==
    /\ wpc[w] \in {"idle", "done"}
    /\ wjob' = [wjob EXCEPT ![w] = j]
    /\ IF jobs[j] = NoJob \/ jobs[j].state = CANCELLED
       THEN Returned(w, j, FALSE)
       ELSE /\ wpc' = [wpc EXCEPT ![w] = "waiting"]
            /\ wev' = [wev EXCEPT ![w] = jobs[j].pause_event]
            /\ UNCHANGED <<wret, wsnap>>
    /\ UNCHANGED <<jobs, events, lastCall>>

\* lines 192-195: the captured event is set, wait_for returns, break, return True
wait_if_paused_wake(w) ==
    /\ wpc[w] = "waiting"
    /\ events[wev[w]]
    /\ Returned(w, wjob[w], TRUE)
    /\ UNCHANGED <<jobs, events, wjob, lastCall>>

\* line 196: the event stayed clear for `timeout` seconds
wait_if_paused_timeout(w) ==
    /\ wpc[w] = "waiting"
    /\ ~events[wev[w]]
    /\ wpc' = [wpc EXCEPT ![w] = "timeout"]
    /\ UNCHANGED <<jobs, events, wjob, wev, wret, wsnap, lastCall>>

\* the re-check without lines 201-202 (break when the job is not paused)
wait_if_paused_recheck_no_break(w) ==
    /\ wpc[w] = "timeout"
    /\ IF jobs[wjob[w]] = NoJob \/ jobs[wjob[w]].state = CANCELLED
       THEN Returned(w, wjob[w], FALSE)
       ELSE /\ wpc' = [wpc EXCEPT ![w] = "waiting"]
            /\ UNCHANGED <<wret, wsnap, wev>>
    /\ UNCHANGED <<jobs, events, wjob, lastCall>>

\* lines 197-203: the re-check under the lock after a timeout
wait_if_paused_recheck(w) ==
    /\ wpc[w] = "timeout"
    /\ IF jobs[wjob[w]] = NoJob \/ jobs[wjob[w]].state = CANCELLED
       THEN Returned(w, wjob[w], FALSE)
       ELSE IF jobs[wjob[w]].state # PAUSED
            THEN Returned(w, wjob[w], TRUE)
            ELSE /\ wpc' = [wpc EXCEPT ![w] = "waiting"]
                 /\ UNCHANGED <<wret, wsnap, wev>>
    /\ UNCHANGED <<jobs, events, wjob, lastCall>>

\* ValidationResult; is_valid is set by __post_init__ (the message, a text
\* that states the status and the two counts, is left out)
ValidationResult(status, content_length, word_count) ==
    [status |-> status, content_length |-> content_length,
     word_count |-> word_count, is_valid |-> (status = "ok")]

\* no ValidationResult has been returned
NoValidation ==
    [status |-> "none", content_length |-> 0, word_count |-> 0,
     is_valid |-> FALSE]

\* the fields of AdaptiveSettings a ContentValidator keeps
NoSettings == [min_content_length |-> 0, min_word_count |-> 0]

\* no function has been called
NoCall ==
    [fn |-> "none", args |-> <<>>, settings |-> NoSettings, bool |-> FALSE,
     int |-> 0, str |-> <<>>, res |-> NoValidation]

Callers == {"c1", "c2"}

\* a caller that is in none of the methods
NoCaller ==
    [pc |-> "idle", op |-> "none", job_id |-> "j1", job |-> NoJob,
     ret |-> "None"]

\* JobManager.__init__: no job, no waiter
RegistryEmpty ==
    /\ jobs_lock = "free"
    /\ callers = [c \in Callers |-> NoCaller]
    /\ jobs = [j \in JobIds |-> NoJob]
    /\ events = [e \in EventIds |-> TRUE]
    /\ wpc = [w \in Waiters |-> "idle"]
    /\ wjob = [w \in Waiters |-> "j1"]
    /\ wev = [w \in Waiters |-> 1]
    /\ wret = [w \in Waiters |-> FALSE]
    /\ wsnap = [w \in Waiters |-> "absent"]
    /\ lastCall = [op |-> "none", job_id |-> "j1", before |-> "absent", ret |-> "None"]

InitRegistry == call = NoCall /\ RegistryEmpty

-----------------------------------------------------------------------------
(* execute_full_site_crawl, the crawl loop in its worker thread, and the   *)
(* control endpoints.  The background task and the endpoints are           *)
(* coroutines of one event loop: an endpoint runs only while the task is   *)
(* suspended (before it starts, while the crawl runs in the executor, and  *)
(* while the webhook is posted).  The crawl loop runs in a thread of its   *)
(* own and interleaves with the endpoints step by step.                    *)

MaxPages == 3

\* the job the background task runs
J == "j1"

Requests ==
    [user_id : BOOLEAN, kb_id : BOOLEAN, use_ai : BOOLEAN,
     webhook_url : BOOLEAN, pages : 0 .. MaxPages]

\* Database.create_crawl_job: the row as inserted
create_crawl_job ==
    [status |-> "pending", progress |-> 0, pages_crawled |-> 0, error |-> FALSE]

\* no cancel request has been answered with success
NotAccepted == 0 - 1

JobCreated(r) ==
    /\ req = r
    /\ db = create_crawl_job
    /\ bpc = "pending"
    /\ cpc = "idle"
    /\ consumed = 0
    /\ curSuccess = FALSE
    /\ page_count = 0
    /\ delivered = <<>>
    /\ results = 0
    /\ pages_crawled = 0
    /\ was_cancelled = FALSE
    /\ error_message = FALSE
    /\ webhook = <<>>
    /\ lastCheck = 0
    /\ observedStop = FALSE
    /\ accepted = NotAccepted

\* no crawl job is submitted
NoRequest ==
    [user_id |-> FALSE, kb_id |-> FALSE, use_ai |-> FALSE,
     webhook_url |-> FALSE, pages |-> 0]

crawlVars == <<cpc, consumed, curSuccess, page_count, delivered, results,
               lastCheck, observedStop>>

\* main.py line 184
bg_register ==
    /\ bpc = "pending"
    /\ register_job(J)
    /\ bpc' = "check_ids"
    /\ UNCHANGED <<req, db, crawlVars, pages_crawled, was_cancelled,
                   error_message, webhook, accepted>>

\* main.py lines 186-213
bg_check_ids ==
    /\ bpc = "check_ids"
    /\ IF ~req.user_id \/ ~req.kb_id
       THEN /\ error_message' = TRUE
            /\ db' = [db EXCEPT !.status = "failed", !.error = TRUE]
            /\ unregister_job(J)
            /\ bpc' = "done"
       ELSE /\ db' = [db EXCEPT !.status = "running"]
            /\ bpc' = "dispatch"
            /\ UNCHANGED <<regVars, error_message>>
    /\ UNCHANGED <<req, crawlVars, pages_crawled, was_cancelled, webhook,
                   accepted>>

\* main.py lines 216-283 and 289-336: the crawl is handed to the executor;
\* CrawlerService.crawl_full_site takes no on_page_crawled and no job_id
bg_dispatch ==
    /\ bpc = "dispatch"
    /\ IF req.use_ai
       THEN /\ bpc' = "crawling"
            /\ cpc' = "resolve"
       ELSE /\ bpc' = "except"
            /\ UNCHANGED cpc
    /\ UNCHANGED <<regVars, req, db, consumed, curSuccess, page_count,
                   delivered, results, lastCheck, observedStop, pages_crawled,
                   was_cancelled, error_message, webhook, accepted>>

\* adaptive_crawler.py lines 225-249: the seed strategy is resolved
crawl_resolve ==
    /\ cpc = "resolve"
    /\ \E raised \in BOOLEAN :
          cpc' = IF raised THEN "raised" ELSE "pull"
    /\ UNCHANGED <<regVars, req, db, bpc, consumed, curSuccess, page_count,
                   delivered, results, lastCheck, observedStop, pages_crawled,
                   was_cancelled, error_message, webhook, accepted>>

\* adaptive_crawler.py line 252: the next page event of the sequence
crawl_pull ==
    /\ cpc = "pull"
    /\ IF consumed < req.pages
       THEN /\ consumed' = consumed + 1
            /\ curSuccess' \in BOOLEAN
            /\ cpc' = "check"
       ELSE /\ cpc' = "returned"
            /\ UNCHANGED <<consumed, curSuccess>>
    /\ UNCHANGED <<regVars, req, db, bpc, page_count, delivered, results,
                   lastCheck, observedStop, pages_crawled, was_cancelled,
                   error_message, webhook, accepted>>

\* crawl_check with `continue` in place of the `break` of line 255
crawl_check_continue(j) ==
    /\ cpc = "check"
    /\ lastCheck' = consumed
    /\ IF should_stop(j)
       THEN /\ observedStop' = TRUE
            /\ cpc' = "pull"
            /\ UNCHANGED page_count
       ELSE /\ page_count' = page_count + 1
            /\ cpc' = IF curSuccess THEN "callback" ELSE "pull"
            /\ UNCHANGED observedStop
    /\ UNCHANGED <<regVars, req, db, bpc, consumed, curSuccess, delivered,
                   results, pages_crawled, was_cancelled, error_message,
                   webhook, accepted>>

\* adaptive_crawler.py lines 253-264 and 283-285
crawl_check(j) ==
    /\ cpc = "check"
    /\ lastCheck' = consumed
    /\ IF should_stop(j)
       THEN /\ observedStop' = TRUE
            /\ cpc' = "returned"
            /\ UNCHANGED page_count
       ELSE /\ page_count' = page_count + 1
            /\ cpc' = IF curSuccess THEN "callback" ELSE "pull"
            /\ UNCHANGED observedStop
    /\ UNCHANGED <<regVars, req, db, bpc, consumed, curSuccess, delivered,
                   results, pages_crawled, was_cancelled, error_message,
                   webhook, accepted>>

\* adaptive_crawler.py lines 265-272 and main.py lines 225-237
crawl_callback(j) ==
    /\ cpc = "callback"
    /\ delivered' = Append(delivered, consumed)
    /\ cpc' = IF should_stop(j) THEN "pull" ELSE "insert"
    /\ UNCHANGED <<regVars, req, db, bpc, consumed, curSuccess, page_count,
                   results, lastCheck, observedStop, pages_crawled,
                   was_cancelled, error_message, webhook, accepted>>

\* Progress without the min(..., 99) of line 256
Progress_uncapped(n) == (n * 100) \div MaxPages

\* main.py line 256
Progress(n) == IF (n * 100) \div MaxPages < 99 THEN (n * 100) \div MaxPages ELSE 99

\* a crawl that ends with an error when the callback returns False
crawl_insert_abort ==
    /\ cpc = "insert"
    /\ \E doc_id \in BOOLEAN :
          IF doc_id
          THEN /\ pages_crawled' = pages_crawled + 1
               /\ db' = [db EXCEPT !.pages_crawled = pages_crawled + 1,
                                   !.progress = Progress(pages_crawled + 1)]
               /\ results' = results + 1
               /\ cpc' = "pull"
          ELSE /\ UNCHANGED <<pages_crawled, db, results>>
               /\ cpc' = "raised"
    /\ UNCHANGED <<regVars, req, bpc, consumed, curSuccess, page_count,
                   delivered, lastCheck, observedStop, was_cancelled,
                   error_message, webhook, accepted>>

\* main.py lines 239-268 and adaptive_crawler.py lines 273-274
crawl_insert ==
    /\ cpc = "insert"
    /\ \E doc_id \in BOOLEAN :
          IF doc_id
          THEN /\ pages_crawled' = pages_crawled + 1
               /\ db' = [db EXCEPT !.pages_crawled = pages_crawled + 1,
                                   !.progress = Progress(pages_crawled + 1)]
               /\ results' = results + 1
          ELSE UNCHANGED <<pages_crawled, db, results>>
    /\ cpc' = "pull"
    /\ UNCHANGED <<regVars, req, bpc, consumed, curSuccess, page_count,
                   delivered, lastCheck, observedStop, was_cancelled,
                   error_message, webhook, accepted>>

\* main.py lines 270-287: the results are yielded once the crawl returned
bg_iterate(j) ==
    /\ bpc = "crawling"
    /\ cpc \in {"returned", "raised"}
    /\ IF cpc = "raised"
       THEN /\ bpc' = "except"
            /\ UNCHANGED was_cancelled
       ELSE /\ was_cancelled' = (results > 0 /\ should_stop(j))
            /\ bpc' = "finish"
    /\ UNCHANGED <<regVars, req, db, crawlVars, pages_crawled, error_message,
                   webhook, accepted>>

\* main.py lines 345-361
bg_write_status ==
    /\ bpc = "finish"
    /\ db' = IF was_cancelled
             THEN [db EXCEPT !.status = "cancelled",
                             !.pages_crawled = pages_crawled]
             ELSE [db EXCEPT !.status = "completed", !.progress = 100,
                             !.pages_crawled = pages_crawled]
    /\ bpc' = "mark"
    /\ UNCHANGED <<regVars, req, crawlVars, pages_crawled, was_cancelled,
                   error_message, webhook, accepted>>

\* main.py line 363
bg_mark_completed ==
    /\ bpc = "mark"
    /\ mark_completed(J)
    /\ bpc' = "finally"
    /\ UNCHANGED <<req, db, crawlVars, pages_crawled, was_cancelled,
                   error_message, webhook, accepted>>

\* main.py lines 365-375
bg_except ==
    /\ bpc = "except"
    /\ error_message' = TRUE
    /\ db' = [db EXCEPT !.status = "failed", !.error = TRUE,
                        !.pages_crawled = pages_crawled]
    /\ bpc' = "finally"
    /\ UNCHANGED <<regVars, req, crawlVars, pages_crawled, was_cancelled,
                   webhook, accepted>>

\* bg_finally without the unregister_job of line 377
bg_finally_keeps_record ==
    /\ bpc = "finally"
    /\ bpc' = "webhook"
    /\ UNCHANGED <<regVars, req, db, crawlVars, pages_crawled, was_cancelled,
                   error_message, webhook, accepted>>

\* main.py lines 376-377
bg_finally ==
    /\ bpc = "finally"
    /\ unregister_job(J)
    /\ bpc' = "webhook"
    /\ UNCHANGED <<req, db, crawlVars, pages_crawled, was_cancelled,
                   error_message, webhook, accepted>>

\* main.py lines 379-389
WebhookPayload ==
    [status |-> IF ~error_message THEN "completed" ELSE "failed",
     pages_crawled |-> pages_crawled, error |-> error_message]

\* main.py lines 379-396: the post is sent or raises, and a post that
\* raises is logged
bg_webhook ==
    /\ bpc = "webhook"
    /\ IF req.webhook_url
       THEN \E sent \in BOOLEAN :
               webhook' = Append(webhook, [payload |-> WebhookPayload,
                                           sent |-> sent])
       ELSE UNCHANGED webhook
    /\ bpc' = "done"
    /\ UNCHANGED <<regVars, req, db, crawlVars, pages_crawled, was_cancelled,
                   error_message, accepted>>

\* the event loop is free for an endpoint's coroutine
LoopFree == bpc \in {"pending", "crawling", "webhook", "done"}

\* main.py lines 465-498
cancel_crawl_job(j) ==
    /\ LoopFree
    /\ IF db.status \in {"completed", "failed", "cancelled"}
       THEN UNCHANGED <<regVars, db, accepted>>
       ELSE /\ cancel_job(j)
            /\ db' = [db EXCEPT !.status = "cancelled"]
            /\ accepted' = IF accepted = NotAccepted THEN pages_crawled
                           ELSE accepted
    /\ UNCHANGED <<req, bpc, crawlVars, pages_crawled, was_cancelled,
                   error_message, webhook>>

\* main.py lines 501-529
pause_crawl_job(j) ==
    /\ LoopFree
    /\ IF db.status # "running"
       THEN UNCHANGED <<regVars, db>>
       ELSE /\ pause_job(j)
            /\ db' = IF lastCall'.ret = "True"
                     THEN [db EXCEPT !.status = "paused"] ELSE db
    /\ UNCHANGED <<req, bpc, crawlVars, pages_crawled, was_cancelled,
                   error_message, webhook, accepted>>

\* main.py lines 532-560
resume_crawl_job(j) ==
    /\ LoopFree
    /\ IF db.status # "paused"
       THEN UNCHANGED <<regVars, db>>
       ELSE /\ resume_job(j)
            /\ db' = IF lastCall'.ret = "True"
                     THEN [db EXCEPT !.status = "running"] ELSE db
    /\ UNCHANGED <<req, bpc, crawlVars, pages_crawled, was_cancelled,
                   error_message, webhook, accepted>>


-----------------------------------------------------------------------------
(* ConfigManager: paths and patterns are sequences of characters. *)

\* str.rstrip("/")
RECURSIVE rstrip(_)
rstrip(s) ==
    IF s # <<>> /\ s[Len(s)] = "/" THEN rstrip(SubSeq(s, 1, Len(s) - 1)) ELSE s

\* str.lstrip("/")
RECURSIVE lstrip(_)
lstrip(s) == IF s # <<>> /\ Head(s) = "/" THEN lstrip(Tail(s)) ELSE s

\* str.strip("/")
strip(s) == lstrip(rstrip(s))

\* str.split("/"): the segments between the slashes, empty ones included
RECURSIVE split(_)
split(s) ==
    IF \A i \in 1 .. Len(s) : s[i] # "/"
    THEN <<s>>
    ELSE LET i == CHOOSE k \in 1 .. Len(s) :
                     s[k] = "/" /\ \A m \in 1 .. (k - 1) : s[m] # "/"
         IN <<SubSeq(s, 1, i - 1)>> \o split(SubSeq(s, i + 1, Len(s)))

\* str.startswith
startswith(s, prefix) ==
    Len(prefix) <= Len(s) /\ SubSeq(s, 1, Len(prefix)) = prefix

\* str.endswith
endswith(s, suffix) ==
    Len(suffix) <= Len(s)
    /\ SubSeq(s, Len(s) - Len(suffix) + 1, Len(s)) = suffix

\* fnmatch.fnmatch for patterns whose only wildcard is "*"
RECURSIVE fnmatch(_, _)
fnmatch(name, pat) ==
    IF pat = <<>> THEN name = <<>>
    ELSE IF Head(pat) = "*"
         THEN fnmatch(name, Tail(pat))
              \/ (name # <<>> /\ fnmatch(Tail(name), pat))
         ELSE name # <<>> /\ Head(name) = Head(pat)
              /\ fnmatch(Tail(name), Tail(pat))

_match_path(path, pattern) ==
    IF pattern = <<"*">> THEN TRUE
    ELSE LET normalized_path == rstrip(path)
             normalized_pattern == rstrip(pattern)
         IN \/ fnmatch(normalized_path, normalized_pattern)
            \/ /\ endswith(normalized_pattern, <<"/", "*">>)
               /\ startswith(normalized_path,
                             SubSeq(normalized_pattern, 1,
                                    Len(normalized_pattern) - 2))

extract_path_pattern(path) ==
    LET parts == split(strip(path)) IN
    IF Len(parts) >= 2
    THEN <<"/">> \o parts[1] \o <<"/">> \o parts[2] \o <<"/", "*">>
    ELSE IF Len(parts) = 1 /\ parts[1] # <<>>
         THEN <<"/">> \o parts[1] \o <<"/", "*">>
         ELSE <<"*">>

\* the code point of a character, for the ordering of path_pattern
Ord(c) == CASE c = "*" -> 42 [] c = "/" -> 47 [] c = "a" -> 97
            [] c = "b" -> 98 [] c = "c" -> 99 [] OTHER -> 0

\* s < t as strings
RECURSIVE StrLess(_, _)
StrLess(s, t) ==
    IF t = <<>> THEN FALSE
    ELSE IF s = <<>> THEN TRUE
    ELSE IF Head(s) # Head(t) THEN Ord(Head(s)) < Ord(Head(t))
    ELSE StrLess(Tail(s), Tail(t))

RowIds == 1 .. Len(rows)

\* .eq("domain", domain).order("path_pattern", desc=True): the ids of the
\* rows a row id may follow (one domain is modelled)
Before(i, k) ==
    \/ StrLess(rows[k].path_pattern, rows[i].path_pattern)
    \/ rows[k].path_pattern = rows[i].path_pattern /\ i < k

\* lines 17-37: the first row, in that order, whose pattern matches (0: None)
get_config_for_url(path) ==
    LET matching == {i \in RowIds : _match_path(path, rows[i].path_pattern)}
    IN IF matching = {} THEN 0
       ELSE CHOOSE i \in matching : \A k \in matching \ {i} : Before(i, k)

\* SiteConfig.to_db_dict (models.py lines 100-113): the columns a save writes
to_db_dict(c) ==
    [path_pattern |-> c.path_pattern, css_selector |-> c.css_selector,
     framework_detected |-> c.framework_detected, confidence |-> c.confidence]

\* SiteConfig.from_db_row (models.py lines 67-98)
from_db_row(i) ==
    [id |-> i, path_pattern |-> rows[i].path_pattern,
     css_selector |-> rows[i].css_selector,
     framework_detected |-> rows[i].framework_detected,
     confidence |-> rows[i].confidence]

\* an update that replaces the row, the counters back at their defaults
Updated_reset(row, data) ==
    [path_pattern |-> data.path_pattern, css_selector |-> data.css_selector,
     framework_detected |-> data.framework_detected,
     confidence |-> data.confidence, success_count |-> 0, failure_count |-> 0]

\* .update(data).eq("id", id): the columns of data, the others kept
Updated(row, data) ==
    [row EXCEPT !.path_pattern = data.path_pattern,
                !.css_selector = data.css_selector,
                !.framework_detected = data.framework_detected,
                !.confidence = data.confidence]

\* .insert(data): the columns of data, the counters at their defaults
Inserted(data) ==
    [path_pattern |-> data.path_pattern, css_selector |-> data.css_selector,
     framework_detected |-> data.framework_detected,
     confidence |-> data.confidence, success_count |-> 0, failure_count |-> 0]

\* the rpc increment_site_config_success: an atomic increment in the store
increment_site_config_success(id) ==
    rows' = [rows EXCEPT ![id].success_count = @ + 1]

\* the rpc increment_site_config_failure: an atomic increment in the store
increment_site_config_failure(id) ==
    rows' = [rows EXCEPT ![id].failure_count = @ + 1]

\* record_success calling the other rpc
record_success_swapped(id) ==
    /\ increment_site_config_failure(id)
    /\ succCalls' = [succCalls EXCEPT ![id] = @ + 1]
    /\ UNCHANGED failCalls

\* config_manager.py lines 85-89
record_success(id) ==
    /\ increment_site_config_success(id)
    /\ succCalls' = [succCalls EXCEPT ![id] = @ + 1]
    /\ UNCHANGED failCalls

\* config_manager.py lines 91-95
record_failure(id) ==
    /\ increment_site_config_failure(id)
    /\ failCalls' = [failCalls EXCEPT ![id] = @ + 1]
    /\ UNCHANGED succCalls

-----------------------------------------------------------------------------
(* PageAnalyzer *)

\* the confidences a model response may carry
LLMConfidences == {40, 90}

\* str.lower() of a word of the html or of a preset name
word_lower(w) ==
    CASE w = "Docusaurus" -> "docusaurus"
      [] w = "GitBook" -> "gitbook"
      [] OTHER -> w

\* models.py lines 152-198: the built-in strategies, each by the first of
\* its css selectors
FRAMEWORK_PRESETS ==
    [f \in {"docusaurus", "gitbook", "vuepress", "mkdocs", "sphinx",
            "readthedocs", "confluence", "notion", "generic"} |->
        [css_selector |->
            CASE f = "docusaurus" -> ".theme-doc-markdown.markdown"
              [] f = "gitbook" -> ".markdown-section"
              [] f = "vuepress" -> ".theme-default-content"
              [] f = "mkdocs" -> ".md-content__inner"
              [] f = "sphinx" -> ".body"
              [] f = "readthedocs" -> ".rst-content"
              [] f = "confluence" -> "#main-content"
              [] f = "notion" -> ".notion-page-content"
              [] OTHER -> "main"]]

\* models.py lines 201-202; "none" for no entry
get_framework_preset(framework) ==
    IF word_lower(framework) \in DOMAIN FRAMEWORK_PRESETS
    THEN FRAMEWORK_PRESETS[word_lower(framework)].css_selector
    ELSE "none"

\* analyzer.py lines 235-244, in the order of the dict
framework_indicators ==
    << <<"docusaurus", {"docusaurus", "theme-doc-markdown", "__docusaurus"}>>,
       <<"gitbook", {"gitbook", "book-summary"}>>,
       <<"vuepress", {"vuepress", "theme-default-content"}>>,
       <<"mkdocs", {"mkdocs", "md-content"}>>,
       <<"sphinx", {"sphinx", "sphinxsidebar"}>>,
       <<"readthedocs", {"readthedocs", "rst-content"}>>,
       <<"confluence", {"confluence", "wiki-content"}>>,
       <<"notion", {"notion-page-content"}>> >>

\* what the fetched html holds, as the set of the words that occur in it:
\* a framework marker or none
Htmls == {{"docusaurus"}, {}}

\* what _call_llm and _parse_response do: raise, or a proposal
LLMOutcomes == {[raised |-> TRUE, confidence |-> 0]}
               \cup {[raised |-> FALSE, confidence |-> c] : c \in LLMConfidences}

\* what the model may answer: the call raises, or its content is empty, text
\* without JSON, a JSON array, an object whose confidence is no number, or
\* an object with a confidence
Responses ==
    {[kind |-> k, confidence |-> 0] :
        k \in {"raises", "empty", "text", "array", "bad_confidence"}}
    \cup {[kind |-> "object", confidence |-> c] : c \in LLMConfidences}

\* analyzer.py lines 182-230: _call_llm and _parse_response on an answer.
\* completion raises; json.loads and the search for {...} fail on empty
\* content and on text (ValueError); a list has no .get (AttributeError);
\* float() of a word raises ValueError
LLMOutcome(response) ==
    [raised |-> response.kind # "object", confidence |-> response.confidence]

\* the htmls analyze is called on by itself: markers of four frameworks,
\* one of them capitalised, and a word that is no marker
AnalyzeHtmls ==
    SUBSET {"md-content", "GitBook", "book-summary", "__docusaurus",
            "notion-page-content", "main"}

\* an exception leaving analyze or reanalyze
Raised == [css_selector |-> "", framework_detected |-> "raised",
           confidence |-> 0]

\* analyzer.py lines 232-271
_fallback_analysis(html) ==
    LET html_lower == {word_lower(w) : w \in html}
        hits == {i \in 1 .. Len(framework_indicators) :
                    framework_indicators[i][2] \cap html_lower # {}}
    IN IF hits # {}
       THEN LET first == CHOOSE i \in hits : \A k \in hits : i <= k
                detected_framework == framework_indicators[first][1]
            IN [css_selector |->
                    FRAMEWORK_PRESETS[detected_framework].css_selector,
                framework_detected |-> detected_framework,
                confidence |-> 75]
       ELSE [css_selector |-> FRAMEWORK_PRESETS["generic"].css_selector,
             framework_detected |-> "generic",
             confidence |-> 50]

\* analyzer.py lines 202-230
_parse_response(llm) ==
    [css_selector |-> "llm", framework_detected |-> "llm",
     confidence |-> llm.confidence]

\* analyze without the try of lines 147-152
analyze_no_except(html, llm) ==
    IF ~api_key THEN _fallback_analysis(html)
    ELSE IF llm.raised THEN Raised
    ELSE _parse_response(llm)

\* analyzer.py lines 124-152
analyze(html, llm) ==
    IF ~api_key THEN _fallback_analysis(html)
    ELSE IF llm.raised THEN _fallback_analysis(html)
    ELSE _parse_response(llm)

\* analyzer.py lines 154-180
reanalyze(html, llm) ==
    IF ~api_key THEN _fallback_analysis(html)
    ELSE IF llm.raised THEN _fallback_analysis(html)
    ELSE [_parse_response(llm) EXCEPT
              !.confidence = IF @ < 70 THEN @ ELSE 70]

-----------------------------------------------------------------------------
(* AdaptiveCrawler._do_crawl_single, Auto mode.  Each extraction runs in a  *)
(* worker thread of the executor; the store is shared.                      *)

Procs == {"p1", "p2"}

MaxRuns == 2

MaxRetryCfg == 2

\* AdaptiveSettings.min_confidence
min_confidence == 50

\* the paths of the urls requested
Paths == { <<"/", "a", "/", "b">>, <<"/", "a">> }

NoConfig ==
    [id |-> 0, path_pattern |-> <<>>, css_selector |-> "none",
     framework_detected |-> "none", confidence |-> 0]

NoResult == [kind |-> "none", config |-> 0, used_cache |-> FALSE]

\* ExtractionMode.AUTO, no preset named
AutoMode == [extraction_mode |-> "auto", preset |-> "none"]

\* the modes and presets requested: Manual, Preset with no name, with the
\* name of an entry (as written in the table or capitalised) and with a
\* name of no entry, and Auto
Modes ==
    {AutoMode, [extraction_mode |-> "manual", preset |-> "none"]}
    \cup {[extraction_mode |-> "preset", preset |-> n] :
              n \in {"none", "docusaurus", "GitBook", "nosuch"}}

\* the run of extraction p has called ops, one after the other
Did(p, ops) == xlog' = [xlog EXCEPT ![p] = @ \o ops]

\* no extraction is running
ProcsIdle(cs) ==
    /\ clients = cs
    /\ xpc = [p \in Procs |-> "idle"]
    /\ xurl = [p \in Procs |-> <<>>]
    /\ xforce = [p \in Procs |-> FALSE]
    /\ cfg = [p \in Procs |-> NoConfig]
    /\ found = [p \in Procs |-> 0]
    /\ saveRet = [p \in Procs |-> 0]
    /\ retry_count = [p \in Procs |-> 0]
    /\ nReanalyze = [p \in Procs |-> 0]
    /\ allInvalid = [p \in Procs |-> TRUE]
    /\ result = [p \in Procs |-> NoResult]
    /\ xmode = [p \in Procs |-> AutoMode]
    /\ xlog = [p \in Procs |-> <<>>]

\* no extraction is running and the table is empty
ExtractIdle(cs) ==
    /\ rows = <<>>
    /\ succCalls = <<>>
    /\ failCalls = <<>>
    /\ runs = 0
    /\ ProcsIdle(cs)

InitExtract(cs) ==
    /\ ExtractIdle(cs)
    /\ max_retry \in 0 .. MaxRetryCfg
    /\ api_key \in BOOLEAN

\* no extraction is requested
NoExtract ==
    /\ ExtractIdle({})
    /\ max_retry = 0
    /\ api_key = FALSE

envVars == <<clients, max_retry, api_key>>

\* crawl_single_url is called
x_call(p, path, mode, force) ==
    /\ p \in clients
    /\ xpc[p] = "idle"
    /\ runs < MaxRuns
    /\ runs' = runs + 1
    /\ xurl' = [xurl EXCEPT ![p] = path]
    /\ xforce' = [xforce EXCEPT ![p] = force]
    /\ xmode' = [xmode EXCEPT ![p] = mode]
    /\ xlog' = [xlog EXCEPT ![p] = <<>>]
    /\ xpc' = [xpc EXCEPT ![p] =
                  CASE mode.extraction_mode = "manual" -> "manual"
                    [] mode.extraction_mode = "preset" -> "preset"
                    [] OTHER -> "lookup"]
    /\ cfg' = [cfg EXCEPT ![p] = NoConfig]
    /\ retry_count' = [retry_count EXCEPT ![p] = 0]
    /\ nReanalyze' = [nReanalyze EXCEPT ![p] = 0]
    /\ allInvalid' = [allInvalid EXCEPT ![p] = TRUE]
    /\ result' = [result EXCEPT ![p] = NoResult]
    /\ found' = [found EXCEPT ![p] = 0]
    /\ saveRet' = [saveRet EXCEPT ![p] = 0]
    /\ UNCHANGED <<storeVars, envVars>>

\* a lookup that asks the store even when force_reanalyze is set
x_lookup_force_ignored(p) ==
    /\ xpc[p] = "lookup"
    /\ LET existing == get_config_for_url(xurl[p])
       IN IF existing # 0 /\ rows[existing].confidence >= min_confidence
          THEN /\ cfg' = [cfg EXCEPT ![p] = from_db_row(existing)]
               /\ xpc' = [xpc EXCEPT ![p] = "cached_fetch"]
          ELSE /\ xpc' = [xpc EXCEPT ![p] = "analyze"]
               /\ UNCHANGED cfg
    /\ Did(p, <<"get_config_for_url">>)
    /\ UNCHANGED <<storeVars, envVars, runs, xurl, xforce, found, saveRet,
                   retry_count, nReanalyze, allInvalid, result, xmode>>

\* adaptive_crawler.py lines 183-208
x_lookup(p) ==
    /\ xpc[p] = "lookup"
    /\ LET existing == IF xforce[p] THEN 0 ELSE get_config_for_url(xurl[p])
       IN IF existing # 0 /\ rows[existing].confidence >= min_confidence
          THEN /\ cfg' = [cfg EXCEPT ![p] = from_db_row(existing)]
               /\ xpc' = [xpc EXCEPT ![p] = "cached_fetch"]
          ELSE /\ xpc' = [xpc EXCEPT ![p] = "analyze"]
               /\ UNCHANGED cfg
    /\ Did(p, IF xforce[p] THEN <<>> ELSE <<"get_config_for_url">>)
    /\ UNCHANGED <<storeVars, envVars, runs, xurl, xforce, found, saveRet,
                   retry_count, nReanalyze, allInvalid, result, xmode>>

\* the extraction returns with a strategy
Return(p, used_cache) ==
    /\ result' = [result EXCEPT ![p] =
                     [kind |-> "strategy", config |-> cfg[p].id,
                      used_cache |-> used_cache]]
    /\ xpc' = [xpc EXCEPT ![p] = "done"]

\* a fetch under the cached strategy that returns a valid page without
\* recording the success
x_cached_fetch_unrecorded(p) ==
    /\ xpc[p] = "cached_fetch"
    /\ \E is_valid \in BOOLEAN :
          IF is_valid
          THEN /\ Return(p, TRUE)
               /\ allInvalid' = [allInvalid EXCEPT ![p] = FALSE]
               /\ Did(p, <<"_crawl_with_config", "valid">>)
               /\ UNCHANGED storeVars
          ELSE /\ record_failure(cfg[p].id)
               /\ xpc' = [xpc EXCEPT ![p] = "retry"]
               /\ UNCHANGED <<result, allInvalid>>
               /\ Did(p, <<"_crawl_with_config", "invalid",
                           "record_failure">>)
    /\ UNCHANGED <<envVars, runs, xurl, xforce, cfg, found, saveRet,
                   retry_count, nReanalyze, xmode>>

\* adaptive_crawler.py lines 195-205: fetch under the cached strategy
x_cached_fetch(p) ==
    /\ xpc[p] = "cached_fetch"
    /\ \E is_valid \in BOOLEAN :
          IF is_valid
          THEN /\ record_success(cfg[p].id)
               /\ Return(p, TRUE)
               /\ allInvalid' = [allInvalid EXCEPT ![p] = FALSE]
               /\ Did(p, <<"_crawl_with_config", "valid", "record_success">>)
          ELSE /\ record_failure(cfg[p].id)
               /\ xpc' = [xpc EXCEPT ![p] = "retry"]
               /\ UNCHANGED <<result, allInvalid>>
               /\ Did(p, <<"_crawl_with_config", "invalid",
                           "record_failure">>)
    /\ UNCHANGED <<envVars, runs, xurl, xforce, cfg, found, saveRet,
                   retry_count, nReanalyze, xmode>>

\* adaptive_crawler.py lines 385-410: fetch the html, infer, build new_config
x_analyze(p) ==
    /\ xpc[p] = "analyze"
    /\ \E html \in Htmls, llm \in LLMOutcomes :
          LET analysis == analyze(html, llm) IN
          cfg' = [cfg EXCEPT ![p] =
                     [id |-> 0,
                      path_pattern |-> extract_path_pattern(xurl[p]),
                      css_selector |-> analysis.css_selector,
                      framework_detected |-> analysis.framework_detected,
                      confidence |-> analysis.confidence]]
    /\ xpc' = [xpc EXCEPT ![p] = "save_new"]
    /\ Did(p, <<"analyze">>)
    /\ UNCHANGED <<storeVars, envVars, runs, xurl, xforce, found, saveRet,
                   retry_count, nReanalyze, allInvalid, result, xmode>>

\* a select that finds no row
select_nothing(pattern) == {}

\* config_manager.py lines 66-72: the ids of the rows with this path_pattern
select_existing(pattern) == {i \in RowIds : rows[i].path_pattern = pattern}

\* config_manager.py lines 64-74: the select of save_config; existing.data[0]
\* is any of the rows selected
save_select(p) ==
    /\ xpc[p] \in {"save_new", "save_again", "save_api", "save_site"}
    /\ LET existing == select_existing(cfg[p].path_pattern)
       IN IF existing = {}
          THEN found' = [found EXCEPT ![p] = 0]
          ELSE \E i \in existing : found' = [found EXCEPT ![p] = i]
    /\ xpc' = [xpc EXCEPT ![p] =
                  CASE xpc[p] = "save_new" -> "write_new"
                    [] xpc[p] = "save_again" -> "write_again"
                    [] xpc[p] = "save_site" -> "write_site"
                    [] OTHER -> "write_api"]
    /\ UNCHANGED <<storeVars, envVars, runs, xurl, xforce, cfg, saveRet,
                   retry_count, nReanalyze, allInvalid, result, xmode, xlog>>

\* config_manager.py lines 74-80: the update or the insert of save_config,
\* then lines 412-413 and 353-354 (config_id kept) or line 463 (result
\* dropped)
save_write(p) ==
    /\ xpc[p] \in {"write_new", "write_again", "write_api", "write_site"}
    /\ LET data == to_db_dict(cfg[p])
           config_id == IF found[p] # 0 THEN found[p] ELSE Len(rows) + 1
       IN /\ IF found[p] # 0
             THEN /\ rows' = [rows EXCEPT ![found[p]] = Updated(@, data)]
                  /\ UNCHANGED <<succCalls, failCalls>>
             ELSE /\ rows' = Append(rows, Inserted(data))
                  /\ succCalls' = Append(succCalls, 0)
                  /\ failCalls' = Append(failCalls, 0)
          /\ saveRet' = [saveRet EXCEPT ![p] = config_id]
          /\ IF xpc[p] \in {"write_new", "write_site"}
             THEN /\ cfg' = [cfg EXCEPT ![p].id = config_id]
                  /\ xpc' = [xpc EXCEPT ![p] =
                                IF xpc[p] = "write_new" THEN "first_fetch"
                                ELSE "site_pages"]
             ELSE /\ xpc' = [xpc EXCEPT ![p] =
                                IF xpc[p] = "write_again" THEN "refetch"
                                ELSE "idle"]
                  /\ UNCHANGED cfg
    /\ Did(p, <<"save_config">>)
    /\ UNCHANGED <<envVars, runs, xurl, xforce, found, retry_count,
                   nReanalyze, allInvalid, result, xmode>>

\* adaptive_crawler.py lines 415-424: fetch under the new strategy
x_first_fetch(p) ==
    /\ xpc[p] = "first_fetch"
    /\ \E is_valid \in BOOLEAN :
          IF is_valid
          THEN /\ record_success(cfg[p].id)
               /\ Return(p, FALSE)
               /\ allInvalid' = [allInvalid EXCEPT ![p] = FALSE]
               /\ Did(p, <<"_crawl_with_config", "valid", "record_success">>)
          ELSE /\ record_failure(cfg[p].id)
               /\ xpc' = [xpc EXCEPT ![p] = "retry"]
               /\ UNCHANGED <<result, allInvalid>>
               /\ Did(p, <<"_crawl_with_config", "invalid",
                           "record_failure">>)
    /\ UNCHANGED <<envVars, runs, xurl, xforce, cfg, found, saveRet,
                   retry_count, nReanalyze, xmode>>

\* adaptive_crawler.py lines 479-493: the strategy is built from the
\* caller's selectors, the page is fetched under it and validated, and the
\* result is returned with no strategy whatever the validation says
_crawl_with_manual_config(p) ==
    /\ xpc[p] = "manual"
    /\ \E is_valid \in BOOLEAN :
          /\ Did(p, <<"_crawl_with_config",
                      IF is_valid THEN "valid" ELSE "invalid">>)
          /\ allInvalid' = [allInvalid EXCEPT ![p] = ~is_valid]
    /\ cfg' = [cfg EXCEPT ![p] =
                  [id |-> 0, path_pattern |-> <<"*">>,
                   css_selector |-> "css_selector",
                   framework_detected |-> "none", confidence |-> 80]]
    /\ result' = [result EXCEPT ![p] =
                     [kind |-> "manual", config |-> 0, used_cache |-> FALSE]]
    /\ xpc' = [xpc EXCEPT ![p] = "done"]
    /\ UNCHANGED <<storeVars, envVars, runs, xurl, xforce, found, saveRet,
                   retry_count, nReanalyze, xmode>>

\* a preset extraction that hands a page that fails validation to the
\* retry loop
_crawl_with_preset_retry(p) ==
    /\ xpc[p] = "preset"
    /\ cfg' = [cfg EXCEPT ![p] =
                  [id |-> 0, path_pattern |-> <<"*">>,
                   css_selector |-> FRAMEWORK_PRESETS["generic"].css_selector,
                   framework_detected |-> "generic", confidence |-> 80]]
    /\ \E is_valid \in BOOLEAN :
          /\ Did(p, <<"_crawl_with_config",
                      IF is_valid THEN "valid" ELSE "invalid">>)
          /\ allInvalid' = [allInvalid EXCEPT ![p] = ~is_valid]
          /\ IF is_valid
             THEN /\ result' = [result EXCEPT ![p] =
                                   [kind |-> "strategy", config |-> 0,
                                    used_cache |-> FALSE]]
                  /\ xpc' = [xpc EXCEPT ![p] = "done"]
             ELSE /\ xpc' = [xpc EXCEPT ![p] = "retry"]
                  /\ UNCHANGED result
    /\ UNCHANGED <<storeVars, envVars, runs, xurl, xforce, found, saveRet,
                   retry_count, nReanalyze, xmode>>

\* adaptive_crawler.py lines 495-516: the strategy is the entry of the
\* table named by preset, or the generic one; the page is fetched under it
\* and validated, and the result is returned with this strategy whatever
\* the validation says
_crawl_with_preset(p) ==
    /\ xpc[p] = "preset"
    /\ \E is_valid \in BOOLEAN :
          /\ Did(p, <<"_crawl_with_config",
                      IF is_valid THEN "valid" ELSE "invalid">>)
          /\ allInvalid' = [allInvalid EXCEPT ![p] = ~is_valid]
    /\ LET preset_name == IF xmode[p].preset = "none" THEN "generic"
                          ELSE xmode[p].preset
           preset_data == IF get_framework_preset(preset_name) # "none"
                          THEN get_framework_preset(preset_name)
                          ELSE FRAMEWORK_PRESETS["generic"].css_selector
       IN cfg' = [cfg EXCEPT ![p] =
                     [id |-> 0, path_pattern |-> <<"*">>,
                      css_selector |-> preset_data,
                      framework_detected |-> preset_name,
                      confidence |-> 80]]
    /\ result' = [result EXCEPT ![p] =
                     [kind |-> "strategy", config |-> 0, used_cache |-> FALSE]]
    /\ xpc' = [xpc EXCEPT ![p] = "done"]
    /\ UNCHANGED <<storeVars, envVars, runs, xurl, xforce, found, saveRet,
                   retry_count, nReanalyze, xmode>>

\* a raw crawl that returns the strategy that failed along with its result
_crawl_raw_with_config(p) ==
    /\ result' = [result EXCEPT ![p] =
                     [kind |-> "raw_fallback", config |-> cfg[p].id,
                      used_cache |-> FALSE]]
    /\ xpc' = [xpc EXCEPT ![p] = "done"]

\* adaptive_crawler.py lines 518-535
_crawl_raw(p) ==
    /\ result' = [result EXCEPT ![p] =
                     [kind |-> "raw_fallback", config |-> 0,
                      used_cache |-> FALSE]]
    /\ xpc' = [xpc EXCEPT ![p] = "done"]

\* a budget check that lets one more retry through
budget_spent_late(p) == retry_count[p] > max_retry

\* adaptive_crawler.py lines 435-437
budget_spent(p) == retry_count[p] >= max_retry

\* adaptive_crawler.py lines 435-463: the budget check, then re-inference
\* written into old_config
x_retry(p) ==
    /\ xpc[p] = "retry"
    /\ IF budget_spent(p)
       THEN /\ _crawl_raw(p)
            /\ Did(p, <<"_crawl_raw">>)
            /\ UNCHANGED <<cfg, nReanalyze>>
       ELSE /\ \E html \in Htmls, llm \in LLMOutcomes :
                  LET analysis == reanalyze(html, llm) IN
                  cfg' = [cfg EXCEPT
                             ![p].css_selector = analysis.css_selector,
                             ![p].confidence = analysis.confidence,
                             ![p].framework_detected =
                                 analysis.framework_detected]
            /\ nReanalyze' = [nReanalyze EXCEPT ![p] = @ + 1]
            /\ xpc' = [xpc EXCEPT ![p] =
                          IF cfg[p].id # 0 THEN "save_again" ELSE "refetch"]
            /\ Did(p, <<"reanalyze">>)
            /\ UNCHANGED result
    /\ UNCHANGED <<storeVars, envVars, runs, xurl, xforce, found, saveRet,
                   retry_count, allInvalid, xmode>>

\* a retry that recurses with the same retry_count
x_refetch_same_count(p) ==
    /\ xpc[p] = "refetch"
    /\ \E is_valid \in BOOLEAN :
          IF is_valid
          THEN /\ IF cfg[p].id # 0 THEN record_success(cfg[p].id)
                  ELSE UNCHANGED storeVars
               /\ Did(p, <<"_crawl_with_config", "valid">>
                          \o IF cfg[p].id # 0 THEN <<"record_success">>
                             ELSE <<>>)
               /\ Return(p, FALSE)
               /\ allInvalid' = [allInvalid EXCEPT ![p] = FALSE]
               /\ UNCHANGED retry_count
          ELSE /\ IF cfg[p].id # 0 THEN record_failure(cfg[p].id)
                  ELSE UNCHANGED storeVars
               /\ Did(p, <<"_crawl_with_config", "invalid">>
                          \o IF cfg[p].id # 0 THEN <<"record_failure">>
                             ELSE <<>>)
               /\ UNCHANGED retry_count
               /\ xpc' = [xpc EXCEPT ![p] = "retry"]
               /\ UNCHANGED <<result, allInvalid>>
    /\ UNCHANGED <<envVars, runs, xurl, xforce, cfg, found, saveRet,
                   nReanalyze, xmode>>

\* adaptive_crawler.py lines 465-477: refetch, revalidate, recurse
x_refetch(p) ==
    /\ xpc[p] = "refetch"
    /\ \E is_valid \in BOOLEAN :
          IF is_valid
          THEN /\ IF cfg[p].id # 0 THEN record_success(cfg[p].id)
                  ELSE UNCHANGED storeVars
               /\ Did(p, <<"_crawl_with_config", "valid">>
                          \o IF cfg[p].id # 0 THEN <<"record_success">>
                             ELSE <<>>)
               /\ Return(p, FALSE)
               /\ allInvalid' = [allInvalid EXCEPT ![p] = FALSE]
               /\ UNCHANGED retry_count
          ELSE /\ IF cfg[p].id # 0 THEN record_failure(cfg[p].id)
                  ELSE UNCHANGED storeVars
               /\ Did(p, <<"_crawl_with_config", "invalid">>
                          \o IF cfg[p].id # 0 THEN <<"record_failure">>
                             ELSE <<>>)
               /\ retry_count' = [retry_count EXCEPT ![p] = @ + 1]
               /\ xpc' = [xpc EXCEPT ![p] = "retry"]
               /\ UNCHANGED <<result, allInvalid>>
    /\ UNCHANGED <<envVars, runs, xurl, xforce, cfg, found, saveRet,
                   nReanalyze, xmode>>

\* the caller takes the result; the worker thread is free again
x_return(p) ==
    /\ xpc[p] = "done"
    /\ xpc' = [xpc EXCEPT ![p] = "idle"]
    /\ UNCHANGED <<storeVars, envVars, runs, xurl, xforce, cfg, found,
                   saveRet, retry_count, nReanalyze, allInvalid, result,
                   xmode, xlog>>

NextExtract ==
    \/ \E p \in Procs, path \in Paths, mode \in Modes, force \in BOOLEAN :
            x_call(p, path, mode, force)
            /\ UNCHANGED <<regVars, jobVars, fnVars, lockVars>>
    \/ \E p \in Procs : _crawl_with_manual_config(p)
                         /\ UNCHANGED <<regVars, jobVars, fnVars, lockVars>>
    \/ \E p \in Procs : _crawl_with_preset(p)
                         /\ UNCHANGED <<regVars, jobVars, fnVars, lockVars>>
    \/ \E p \in Procs : x_lookup(p) /\ UNCHANGED <<regVars, jobVars, fnVars, lockVars>>
    \/ \E p \in Procs : x_cached_fetch(p) /\ UNCHANGED <<regVars, jobVars, fnVars, lockVars>>
    \/ \E p \in Procs : x_analyze(p) /\ UNCHANGED <<regVars, jobVars, fnVars, lockVars>>
    \/ \E p \in Procs : save_select(p) /\ UNCHANGED <<regVars, jobVars, fnVars, lockVars>>
    \/ \E p \in Procs : save_write(p) /\ UNCHANGED <<regVars, jobVars, fnVars, lockVars>>
    \/ \E p \in Procs : x_first_fetch(p) /\ UNCHANGED <<regVars, jobVars, fnVars, lockVars>>
    \/ \E p \in Procs : x_retry(p) /\ UNCHANGED <<regVars, jobVars, fnVars, lockVars>>
    \/ \E p \in Procs : x_refetch(p) /\ UNCHANGED <<regVars, jobVars, fnVars, lockVars>>
    \/ \E p \in Procs : x_return(p) /\ UNCHANGED <<regVars, jobVars, fnVars, lockVars>>

\* one extraction at a time
InitSingle == InitRegistry /\ JobCreated(NoRequest) /\ InitExtract({"p1"})

SpecSingle == InitSingle /\ [][NextExtract]_vars

\* one step of a running extraction: its fetches and its inference and
\* store calls return
x_step(p) ==
    /\ \/ x_lookup(p) \/ x_cached_fetch(p) \/ x_analyze(p) \/ save_select(p)
       \/ save_write(p) \/ x_first_fetch(p) \/ x_retry(p) \/ x_refetch(p)
       \/ _crawl_with_manual_config(p) \/ _crawl_with_preset(p)
    /\ UNCHANGED <<regVars, jobVars, fnVars, lockVars>>

\* the table as an earlier extraction of /a/b left it: empty, or the row
\* it saved with the confidence the model gave, recorded as one success
StoresLeft ==
    {<<>>}
    \cup {<<[Inserted([path_pattern |-> <<"/", "a", "/", "b", "/", "*">>,
                       css_selector |-> "llm", framework_detected |-> "llm",
                       confidence |-> c])
              EXCEPT !.success_count = 1]>> : c \in LLMConfidences}

\* one extraction is still to run, over such a table
InitOneRun ==
    /\ InitRegistry
    /\ JobCreated(NoRequest)
    /\ rows \in StoresLeft
    /\ succCalls = [i \in 1 .. Len(rows) |-> 1]
    /\ failCalls = [i \in 1 .. Len(rows) |-> 0]
    /\ runs = MaxRuns - 1
    /\ ProcsIdle({"p1"})
    /\ max_retry \in 0 .. MaxRetryCfg
    /\ api_key \in BOOLEAN

\* one extraction, in a worker thread that keeps running
SpecSingleFair ==
    InitOneRun /\ [][NextExtract]_vars
    /\ \A p \in Procs : WF_vars(x_step(p))

-----------------------------------------------------------------------------
(* The ConfigManager under concurrent callers: save_config, record_success  *)
(* and record_failure called from two worker threads, in any order.         *)

MaxCalls == 4

\* save_config(config) is called
call_save_config(p, pattern, confidence) ==
    /\ p \in clients
    /\ xpc[p] = "idle"
    /\ runs < MaxCalls
    /\ runs' = runs + 1
    /\ cfg' = [cfg EXCEPT ![p] =
                  [id |-> 0, path_pattern |-> pattern, css_selector |-> "llm",
                   framework_detected |-> "llm", confidence |-> confidence]]
    /\ xpc' = [xpc EXCEPT ![p] = "save_api"]
    /\ UNCHANGED <<storeVars, envVars, xurl, xforce, found, saveRet,
                   retry_count, nReanalyze, allInvalid, result, xmode, xlog>>

\* record_success(config_id) is called (config_manager.py lines 85-89)
call_record_success(p, id) ==
    /\ p \in clients
    /\ xpc[p] = "idle"
    /\ runs < MaxCalls
    /\ runs' = runs + 1
    /\ record_success(id)
    /\ UNCHANGED <<envVars, xpc, xurl, xforce, cfg, found, saveRet,
                   retry_count, nReanalyze, allInvalid, result, xmode, xlog>>

\* record_failure(config_id) is called (config_manager.py lines 91-95)
call_record_failure(p, id) ==
    /\ p \in clients
    /\ xpc[p] = "idle"
    /\ runs < MaxCalls
    /\ runs' = runs + 1
    /\ record_failure(id)
    /\ UNCHANGED <<envVars, xpc, xurl, xforce, cfg, found, saveRet,
                   retry_count, nReanalyze, allInvalid, result, xmode, xlog>>

Patterns == {extract_path_pattern(path) : path \in Paths}

NextStore ==
    \/ \E p \in Procs, pattern \in Patterns, c \in LLMConfidences :
            call_save_config(p, pattern, c) /\ UNCHANGED <<regVars, jobVars, fnVars, lockVars>>
    \/ \E p \in Procs : save_select(p) /\ UNCHANGED <<regVars, jobVars, fnVars, lockVars>>
    \/ \E p \in Procs : save_write(p) /\ UNCHANGED <<regVars, jobVars, fnVars, lockVars>>
    \/ \E p \in Procs : \E id \in RowIds :
            call_record_success(p, id) /\ UNCHANGED <<regVars, jobVars, fnVars, lockVars>>
    \/ \E p \in Procs : \E id \in RowIds :
            call_record_failure(p, id) /\ UNCHANGED <<regVars, jobVars, fnVars, lockVars>>

InitStore ==
    /\ InitRegistry /\ JobCreated(NoRequest)
    /\ ExtractIdle(Procs)
    /\ max_retry = 0
    /\ api_key = FALSE

SpecStore == InitStore /\ [][NextStore]_vars

-----------------------------------------------------------------------------
(* AdaptiveCrawler._do_crawl_full_site: the strategy is resolved at the    *)
(* seed url and the pages the deep crawl streams are handed to the caller. *)

\* the pages streamed so far
Streamed(p) ==
    Cardinality({i \in 1 .. Len(xlog[p]) : xlog[p][i] = "should_stop"})

\* crawl_full_site is called
site_call(p, path, mode, force) ==
    /\ p \in clients
    /\ xpc[p] = "idle"
    /\ runs < MaxRuns
    /\ runs' = runs + 1
    /\ xurl' = [xurl EXCEPT ![p] = path]
    /\ xforce' = [xforce EXCEPT ![p] = force]
    /\ xmode' = [xmode EXCEPT ![p] = mode]
    /\ xlog' = [xlog EXCEPT ![p] = <<"_resolve_config">>]
    /\ xpc' = [xpc EXCEPT ![p] = "site_resolve"]
    /\ cfg' = [cfg EXCEPT ![p] = NoConfig]
    /\ retry_count' = [retry_count EXCEPT ![p] = 0]
    /\ nReanalyze' = [nReanalyze EXCEPT ![p] = 0]
    /\ allInvalid' = [allInvalid EXCEPT ![p] = TRUE]
    /\ result' = [result EXCEPT ![p] = NoResult]
    /\ found' = [found EXCEPT ![p] = 0]
    /\ saveRet' = [saveRet EXCEPT ![p] = 0]
    /\ UNCHANGED <<storeVars, envVars>>

\* adaptive_crawler.py lines 301-323: the caller's selectors, the preset
\* named if the table has it, or else the stored strategy unless forced
_resolve_config(p) ==
    /\ xpc[p] = "site_resolve"
    /\ LET m == xmode[p]
           existing == IF xforce[p] THEN 0 ELSE get_config_for_url(xurl[p])
       IN IF m.extraction_mode = "manual"
          THEN /\ cfg' = [cfg EXCEPT ![p] =
                             [id |-> 0, path_pattern |-> <<"*">>,
                              css_selector |-> "css_selector",
                              framework_detected |-> "none",
                              confidence |-> 80]]
               /\ xpc' = [xpc EXCEPT ![p] = "site_pages"]
               /\ UNCHANGED xlog
          ELSE IF /\ m.extraction_mode = "preset"
                  /\ m.preset # "none"
                  /\ get_framework_preset(m.preset) # "none"
          THEN /\ cfg' = [cfg EXCEPT ![p] =
                             [id |-> 0, path_pattern |-> <<"*">>,
                              css_selector |-> get_framework_preset(m.preset),
                              framework_detected |-> m.preset,
                              confidence |-> 80]]
               /\ xpc' = [xpc EXCEPT ![p] = "site_pages"]
               /\ UNCHANGED xlog
          ELSE /\ Did(p, IF xforce[p] THEN <<>> ELSE <<"get_config_for_url">>)
               /\ IF existing # 0 /\ rows[existing].confidence >= min_confidence
                  THEN /\ cfg' = [cfg EXCEPT ![p] = from_db_row(existing)]
                       /\ xpc' = [xpc EXCEPT ![p] = "site_pages"]
                  ELSE /\ xpc' = [xpc EXCEPT ![p] = "site_analyze"]
                       /\ UNCHANGED cfg
    /\ UNCHANGED <<storeVars, envVars, runs, xurl, xforce, found, saveRet,
                   retry_count, nReanalyze, allInvalid, result, xmode>>

\* adaptive_crawler.py lines 325-351: fetch the seed's html, infer, build
\* new_config
site_analyze(p) ==
    /\ xpc[p] = "site_analyze"
    /\ \E html \in Htmls, llm \in LLMOutcomes :
          LET analysis == analyze(html, llm) IN
          cfg' = [cfg EXCEPT ![p] =
                     [id |-> 0,
                      path_pattern |-> extract_path_pattern(xurl[p]),
                      css_selector |-> analysis.css_selector,
                      framework_detected |-> analysis.framework_detected,
                      confidence |-> analysis.confidence]]
    /\ xpc' = [xpc EXCEPT ![p] = "save_site"]
    /\ Did(p, <<"analyze">>)
    /\ UNCHANGED <<storeVars, envVars, runs, xurl, xforce, found, saveRet,
                   retry_count, nReanalyze, allInvalid, result, xmode>>

\* a page loop that validates each page and records the outcome on the
\* strategy, as the single-page extraction does
site_page_validated(p) ==
    /\ xpc[p] = "site_pages"
    /\ Streamed(p) < MaxPages
    /\ \E success \in BOOLEAN, is_valid \in BOOLEAN :
          IF success
          THEN /\ Did(p, <<"should_stop", "_build_crawl_result", "validate",
                           IF is_valid THEN "valid" ELSE "invalid",
                           "on_page_crawled">>)
               /\ IF cfg[p].id = 0 THEN UNCHANGED storeVars
                  ELSE IF is_valid THEN record_success(cfg[p].id)
                  ELSE record_failure(cfg[p].id)
          ELSE /\ Did(p, <<"should_stop">>)
               /\ UNCHANGED storeVars
    /\ UNCHANGED <<envVars, runs, xpc, xurl, xforce, cfg, found, saveRet,
                   retry_count, nReanalyze, allInvalid, result, xmode>>

\* adaptive_crawler.py lines 251-285: one page of the stream, whatever it
\* holds; a page fetched with success is built and handed to the callback
site_page(p) ==
    /\ xpc[p] = "site_pages"
    /\ Streamed(p) < MaxPages
    /\ \E success \in BOOLEAN :
          Did(p, IF success
                 THEN <<"should_stop", "_build_crawl_result",
                        "on_page_crawled">>
                 ELSE <<"should_stop">>)
    /\ UNCHANGED <<storeVars, envVars, runs, xpc, xurl, xforce, cfg, found,
                   saveRet, retry_count, nReanalyze, allInvalid, result,
                   xmode>>

\* adaptive_crawler.py lines 287-288: the stream has ended
site_return(p) ==
    /\ xpc[p] = "site_pages"
    /\ result' = [result EXCEPT ![p] =
                     [kind |-> "site", config |-> cfg[p].id,
                      used_cache |-> cfg[p].id # 0 /\ saveRet[p] = 0]]
    /\ xpc' = [xpc EXCEPT ![p] = "done"]
    /\ UNCHANGED <<storeVars, envVars, runs, xurl, xforce, cfg, found,
                   saveRet, retry_count, nReanalyze, allInvalid, xmode, xlog>>

NextSite ==
    \/ \E p \in Procs, path \in Paths, mode \in Modes, force \in BOOLEAN :
            site_call(p, path, mode, force)
            /\ UNCHANGED <<regVars, jobVars, fnVars, lockVars>>
    \/ \E p \in Procs : _resolve_config(p)
                         /\ UNCHANGED <<regVars, jobVars, fnVars, lockVars>>
    \/ \E p \in Procs : site_analyze(p) /\ UNCHANGED <<regVars, jobVars, fnVars, lockVars>>
    \/ \E p \in Procs : save_select(p) /\ UNCHANGED <<regVars, jobVars, fnVars, lockVars>>
    \/ \E p \in Procs : save_write(p) /\ UNCHANGED <<regVars, jobVars, fnVars, lockVars>>
    \/ \E p \in Procs : site_page(p) /\ UNCHANGED <<regVars, jobVars, fnVars, lockVars>>
    \/ \E p \in Procs : site_return(p) /\ UNCHANGED <<regVars, jobVars, fnVars, lockVars>>
    \/ \E p \in Procs : x_return(p) /\ UNCHANGED <<regVars, jobVars, fnVars, lockVars>>

\* one site crawl over the table an earlier extraction left
SpecSite == InitOneRun /\ [][NextSite]_vars


-----------------------------------------------------------------------------
(* One crawl job: the background task, its crawl and the endpoints. *)

NextJob ==
    \/ bg_register /\ UNCHANGED <<storeVars, xVars, fnVars, lockVars>>
    \/ bg_check_ids /\ UNCHANGED <<storeVars, xVars, fnVars, lockVars>>
    \/ bg_dispatch /\ UNCHANGED <<storeVars, xVars, fnVars, lockVars>>
    \/ crawl_resolve /\ UNCHANGED <<storeVars, xVars, fnVars, lockVars>>
    \/ crawl_pull /\ UNCHANGED <<storeVars, xVars, fnVars, lockVars>>
    \/ crawl_check(J) /\ UNCHANGED <<storeVars, xVars, fnVars, lockVars>>
    \/ crawl_callback(J) /\ UNCHANGED <<storeVars, xVars, fnVars, lockVars>>
    \/ crawl_insert /\ UNCHANGED <<storeVars, xVars, fnVars, lockVars>>
    \/ bg_iterate(J) /\ UNCHANGED <<storeVars, xVars, fnVars, lockVars>>
    \/ bg_write_status /\ UNCHANGED <<storeVars, xVars, fnVars, lockVars>>
    \/ bg_mark_completed /\ UNCHANGED <<storeVars, xVars, fnVars, lockVars>>
    \/ bg_except /\ UNCHANGED <<storeVars, xVars, fnVars, lockVars>>
    \/ bg_finally /\ UNCHANGED <<storeVars, xVars, fnVars, lockVars>>
    \/ bg_webhook /\ UNCHANGED <<storeVars, xVars, fnVars, lockVars>>
    \/ cancel_crawl_job(J) /\ UNCHANGED <<storeVars, xVars, fnVars, lockVars>>
    \/ pause_crawl_job(J) /\ UNCHANGED <<storeVars, xVars, fnVars, lockVars>>
    \/ resume_crawl_job(J) /\ UNCHANGED <<storeVars, xVars, fnVars, lockVars>>

InitJob == InitRegistry /\ NoExtract /\ \E r \in Requests : JobCreated(r)

SpecJob == InitJob /\ [][NextJob]_vars

\* the background task, a coroutine the event loop keeps running
bg_step ==
    /\ \/ bg_register \/ bg_check_ids \/ bg_dispatch \/ bg_iterate(J)
       \/ bg_write_status \/ bg_mark_completed \/ bg_except \/ bg_finally
       \/ bg_webhook
    /\ UNCHANGED <<storeVars, xVars, fnVars, lockVars>>

\* the crawl, in a worker thread that keeps running
crawl_step ==
    /\ \/ crawl_resolve \/ crawl_pull \/ crawl_check(J) \/ crawl_callback(J)
       \/ crawl_insert
    /\ UNCHANGED <<storeVars, xVars, fnVars, lockVars>>

SpecJobFair ==
    InitJob /\ [][NextJob]_vars /\ WF_vars(bg_step) /\ WF_vars(crawl_step)

-----------------------------------------------------------------------------
(* The registry alone: any caller, any order of calls. *)

Init == InitRegistry /\ JobCreated(NoRequest) /\ NoExtract

Next ==
    \/ \E j \in JobIds : register_job(j) /\ UNCHANGED <<jobVars, storeVars, xVars, fnVars, lockVars>>
    \/ \E j \in JobIds : unregister_job(j) /\ UNCHANGED <<jobVars, storeVars, xVars, fnVars, lockVars>>
    \/ \E j \in JobIds : cancel_job(j) /\ UNCHANGED <<jobVars, storeVars, xVars, fnVars, lockVars>>
    \/ \E j \in JobIds : pause_job(j) /\ UNCHANGED <<jobVars, storeVars, xVars, fnVars, lockVars>>
    \/ \E j \in JobIds : resume_job(j) /\ UNCHANGED <<jobVars, storeVars, xVars, fnVars, lockVars>>
    \/ \E j \in JobIds : mark_completed(j) /\ UNCHANGED <<jobVars, storeVars, xVars, fnVars, lockVars>>
    \/ \E w \in Waiters, j \in JobIds :
            wait_if_paused_enter(w, j)
            /\ UNCHANGED <<jobVars, storeVars, xVars, fnVars, lockVars>>
    \/ \E w \in Waiters : wait_if_paused_wake(w) /\ UNCHANGED <<jobVars, storeVars, xVars, fnVars, lockVars>>
    \/ \E w \in Waiters : wait_if_paused_timeout(w) /\ UNCHANGED <<jobVars, storeVars, xVars, fnVars, lockVars>>
    \/ \E w \in Waiters : wait_if_paused_recheck(w) /\ UNCHANGED <<jobVars, storeVars, xVars, fnVars, lockVars>>

Spec == Init /\ [][Next]_vars

-----------------------------------------------------------------------------
(* The registry's methods taken statement by statement: the API layer and  *)
(* the background task call them for one job from several threads.         *)

NextLock ==
    \/ \E c \in Callers, op \in Methods :
            lock_call(c, op, J)
            /\ UNCHANGED <<jobVars, storeVars, xVars, fnVars>>
    \/ \E c \in Callers :
            lock_acquire(c) /\ UNCHANGED <<jobVars, storeVars, xVars, fnVars>>
    \/ \E c \in Callers :
            lock_check(c) /\ UNCHANGED <<jobVars, storeVars, xVars, fnVars>>
    \/ \E c \in Callers :
            lock_write(c) /\ UNCHANGED <<jobVars, storeVars, xVars, fnVars>>

InitLock == InitRegistry /\ JobCreated(NoRequest) /\ NoExtract

SpecLock == InitLock /\ [][NextLock]_vars

-----------------------------------------------------------------------------
(* ConfigManager's lookups called on their own, on a table that holds the   *)
(* patterns single-page extraction derives and patterns written as exact    *)
(* paths.                                                                   *)

MaxRows == 2

\* the paths of the urls looked up
LookupPaths ==
    { <<"/">>, <<"/", "a">>, <<"/", "a", "/">>, <<"/", "a", "/", "b">>,
      <<"/", "a", "/", "b", "/", "c">>, <<"/", "a", "b">>,
      <<"/", "a", "/", "/", "b">>, <<"/", "c">>, <<"/", "/", "a">> }

\* the path_pattern values of the rows of one domain
StoredPatterns ==
    { <<"*">>, <<"/", "a", "/", "*">>, <<"/", "a", "/", "b", "/", "*">>,
      <<"/", "a">>, <<"/", "a", "/", "b">> }

\* a row for a new (domain, path_pattern) is inserted
store_config(pattern) ==
    /\ Len(rows) < MaxRows
    /\ \A i \in RowIds : rows[i].path_pattern # pattern
    /\ rows' = Append(rows, Inserted([path_pattern |-> pattern,
                                      css_selector |-> "llm",
                                      framework_detected |-> "llm",
                                      confidence |-> 90]))
    /\ succCalls' = Append(succCalls, 0)
    /\ failCalls' = Append(failCalls, 0)
    /\ UNCHANGED call

\* get_config_for_url(url) is called
call_get_config_for_url(path) ==
    /\ call' = [NoCall EXCEPT !.fn = "get_config_for_url",
                               !.args = <<path>>,
                               !.int = get_config_for_url(path)]
    /\ UNCHANGED storeVars

\* _match_path(path, pattern) is called
call_match_path(path, pattern) ==
    /\ call' = [NoCall EXCEPT !.fn = "_match_path",
                               !.args = <<path, pattern>>,
                               !.bool = _match_path(path, pattern)]
    /\ UNCHANGED storeVars

\* extract_path_pattern(path) is called
call_extract_path_pattern(path) ==
    /\ call' = [NoCall EXCEPT !.fn = "extract_path_pattern",
                               !.args = <<path>>,
                               !.str = extract_path_pattern(path)]
    /\ UNCHANGED storeVars

NextLookup ==
    \/ \E pattern \in StoredPatterns :
            store_config(pattern) /\ UNCHANGED <<regVars, jobVars, xVars, lockVars>>
    \/ \E path \in LookupPaths :
            call_get_config_for_url(path)
            /\ UNCHANGED <<regVars, jobVars, xVars, lockVars>>
    \/ \E path \in LookupPaths, pattern \in StoredPatterns :
            call_match_path(path, pattern)
            /\ UNCHANGED <<regVars, jobVars, xVars, lockVars>>
    \/ \E path \in LookupPaths :
            call_extract_path_pattern(path)
            /\ UNCHANGED <<regVars, jobVars, xVars, lockVars>>

InitLookup == InitRegistry /\ JobCreated(NoRequest) /\ NoExtract

SpecLookup == InitLookup /\ [][NextLookup]_vars

-----------------------------------------------------------------------------
(* ContentValidator.  A document is a sequence of characters; None is the   *)
(* value validate receives when nothing was extracted.                      *)

None == <<"None">>

\* str.isspace, for the white space documents are made of
IsSpace(c) == c \in {" ", "\n"}

\* str.lstrip()
RECURSIVE ws_lstrip(_)
ws_lstrip(s) ==
    IF s # <<>> /\ IsSpace(Head(s)) THEN ws_lstrip(Tail(s)) ELSE s

\* str.rstrip()
RECURSIVE ws_rstrip(_)
ws_rstrip(s) ==
    IF s # <<>> /\ IsSpace(s[Len(s)])
    THEN ws_rstrip(SubSeq(s, 1, Len(s) - 1)) ELSE s

\* str.strip()
ws_strip(s) == ws_lstrip(ws_rstrip(s))

\* the position after the run of characters other than white space from i on
RECURSIVE WordEnd(_, _)
WordEnd(s, i) ==
    IF i > Len(s) \/ IsSpace(s[i]) THEN i ELSE WordEnd(s, i + 1)

\* str.split(): the list of the words, each at the position where it starts
ws_split(s) ==
    [i \in {k \in 1 .. Len(s) : ~IsSpace(s[k]) /\ (k = 1 \/ IsSpace(s[k - 1]))}
        |-> SubSeq(s, i, WordEnd(s, i) - 1)]

\* the position of the next "\n" from i on, or the position after the end
RECURSIVE LineEnd(_, _)
LineEnd(s, i) ==
    IF i > Len(s) \/ s[i] = "\n" THEN i ELSE LineEnd(s, i + 1)

\* str.split("\n"): the list of the lines, each at the position where it
\* starts; the empty string has one empty line
split_lines(s) ==
    [i \in {1} \cup {k + 1 : k \in {m \in 1 .. Len(s) : s[m] = "\n"}}
        |-> SubSeq(s, i, LineEnd(s, i) - 1)]

\* len() of a list
len(l) == Cardinality(DOMAIN l)

\* set() of a list
set(l) == {l[i] : i \in DOMAIN l}

\* str.lower()
lower(s) ==
    [i \in 1 .. Len(s) |-> CASE s[i] = "A" -> "a" [] s[i] = "B" -> "b"
                             [] OTHER -> s[i]]

\* link_pattern.match(line) for
\* ^\[.*?\]\(.*?\)$|^[-*]\s*\[.*?\]|^#+\s*$
link_pattern_match(line) ==
    \/ /\ Len(line) >= 4
       /\ line[1] = "["
       /\ line[Len(line)] = ")"
       /\ \E i \in 2 .. (Len(line) - 2) : line[i] = "]" /\ line[i + 1] = "("
    \/ /\ Len(line) >= 3
       /\ line[1] \in {"-", "*"}
       /\ \E p \in 2 .. Len(line) :
            /\ \A q \in 2 .. (p - 1) : IsSpace(line[q])
            /\ line[p] = "["
            /\ \E r \in (p + 1) .. Len(line) : line[r] = "]"
    \/ /\ Len(line) >= 1
       /\ \E h \in 1 .. Len(line) :
            /\ \A q \in 1 .. h : line[q] = "#"
            /\ \A q \in (h + 1) .. Len(line) : IsSpace(line[q])

_is_navigation_content_no_short_lines(content) ==
    LET raw == split_lines(content)
        lines == [i \in {k \in DOMAIN raw : ws_strip(raw[k]) # <<>>}
                    |-> ws_strip(raw[i])]
        link_like_lines ==
            Cardinality({i \in DOMAIN lines : link_pattern_match(lines[i])})
        unique_words == set(ws_split(lower(content)))
        total_words == len(ws_split(content))
    IN IF len(lines) < 5 THEN FALSE
       ELSE IF link_like_lines * 10 > 7 * len(lines) THEN TRUE
       ELSE IF total_words > 20
               /\ Cardinality(unique_words) * 10 < 3 * total_words THEN TRUE
       ELSE FALSE

\* The ratios are compared as fractions: a quotient of two line or word
\* counts is never nearer 0.85, 0.7 or 0.3 than a float can tell apart
\* without being equal to it.
_is_navigation_content(content) ==
    LET raw == split_lines(content)
        lines == [i \in {k \in DOMAIN raw : ws_strip(raw[k]) # <<>>}
                    |-> ws_strip(raw[i])]
        short_lines == Cardinality({i \in DOMAIN lines : Len(lines[i]) < 40})
        link_like_lines ==
            Cardinality({i \in DOMAIN lines : link_pattern_match(lines[i])})
        unique_words == set(ws_split(lower(content)))
        total_words == len(ws_split(content))
    IN IF len(lines) < 5 THEN FALSE
       ELSE IF short_lines * 100 > 85 * len(lines) THEN TRUE
       ELSE IF link_like_lines * 10 > 7 * len(lines) THEN TRUE
       ELSE IF total_words > 20
               /\ Cardinality(unique_words) * 10 < 3 * total_words THEN TRUE
       ELSE FALSE

validate_navigation_first(self, content) ==
    IF content = None \/ content = <<>> \/ ws_strip(content) = <<>>
    THEN ValidationResult("empty", 0, 0)
    ELSE LET clean_content == ws_strip(content)
             content_length == Len(clean_content)
             word_count == len(ws_split(clean_content))
         IN IF content_length < self.min_content_length
            THEN ValidationResult("too_short", content_length, word_count)
            ELSE IF _is_navigation_content(clean_content)
            THEN ValidationResult("low_quality", content_length, word_count)
            ELSE IF word_count < self.min_word_count
            THEN ValidationResult("too_short", content_length, word_count)
            ELSE ValidationResult("ok", content_length, word_count)

validate(self, content) ==
    IF content = None \/ content = <<>> \/ ws_strip(content) = <<>>
    THEN ValidationResult("empty", 0, 0)
    ELSE LET clean_content == ws_strip(content)
             content_length == Len(clean_content)
             word_count == len(ws_split(clean_content))
         IN IF content_length < self.min_content_length
            THEN ValidationResult("too_short", content_length, word_count)
            ELSE IF word_count < self.min_word_count
            THEN ValidationResult("too_short", content_length, word_count)
            ELSE IF _is_navigation_content(clean_content)
            THEN ValidationResult("low_quality", content_length, word_count)
            ELSE ValidationResult("ok", content_length, word_count)

\* AdaptiveSettings(): the default minimums
DefaultSettings == [min_content_length |-> 100, min_word_count |-> 20]

\* AdaptiveSettings as loaded from stored settings with low minimums
LowSettings == [min_content_length |-> 10, min_word_count |-> 3]

\* n times the character c
Chars(c, n) == [i \in 1 .. n |-> c]

\* k times the word w, one space between two words
Words(k, w) ==
    [i \in 1 .. (k * (Len(w) + 1) - 1)
        |-> IF i % (Len(w) + 1) = 0 THEN " " ELSE w[i % (Len(w) + 1)]]

\* the words a, aa, aaa, ... of 1 to k characters, one space between two
RECURSIVE Stair(_)
Stair(k) ==
    IF k = 1 THEN <<"a">> ELSE Stair(k - 1) \o <<" ">> \o Chars("a", k)

\* n times the line l
Lines(n, l) == [i \in 1 .. n |-> l]

\* "\n".join(ls)
RECURSIVE Join(_)
Join(ls) ==
    IF ls = <<>> THEN <<>>
    ELSE IF Len(ls) = 1 THEN ls[1]
    ELSE ls[1] \o <<"\n">> \o Join(Tail(ls))

\* lines shorter than 20 characters
ShortLines ==
    { <<>>, <<" ", " ">>, <<"a">>, <<"a", "a", "a">>, <<" ", "a", "b", " ">>,
      Chars("a", 19), Words(10, <<"a">>), Stair(5), <<"#", "#">>,
      <<"[", "a", "]", "(", "b", ")">>, <<"-", " ", "[", "a", "]">> }

\* lines of 39 characters and more
LongLines ==
    { Chars("a", 39), Chars("a", 40), Words(9, Chars("a", 4)),
      Words(4, Chars("a", 10)), Stair(8),
      <<"A">> \o Chars("a", 3) \o <<" ">> \o Words(8, Chars("a", 4)),
      <<"[">> \o Chars("a", 20) \o <<"]", "(">> \o Chars("b", 20) \o <<")">>,
      <<"*", "[">> \o Chars("a", 40) \o <<"]">> \o Chars("b", 2) }

\* the documents validate is called with: nothing, one kind of line
\* repeated, two kinds of line one after the other, and lines of one kind
\* around a run of empty lines
Documents ==
    {None, <<>>}
    \cup {Join(Lines(n, l)) : n \in {1, 4, 5, 7, 30},
                              l \in ShortLines \cup LongLines}
    \cup {Join(Lines(nk[2], l1) \o Lines(nk[1] - nk[2], l2)) :
              nk \in {<<7, 1>>, <<7, 4>>, <<7, 6>>, <<20, 17>>, <<20, 18>>,
                      <<30, 1>>, <<30, 4>>, <<30, 6>>, <<30, 20>>},
              l1 \in {<<>>, <<"a">>, Chars("a", 19), Words(10, <<"a">>),
                      Stair(5)},
              l2 \in {<<>>, Chars("a", 19), Chars("a", 40), Stair(8),
                      Words(4, Chars("a", 10))}}
    \cup {Join(Lines(1, l) \o Lines(26, <<>>) \o Lines(3, l)) :
              l \in ShortLines}

\* self._validator.validate(markdown) returns
call_validate ==
    /\ call.fn = "validate"
    /\ call.res = NoValidation
    /\ call' = [call EXCEPT !.res = validate(call.settings, call.args[1])]
    /\ UNCHANGED <<regVars, jobVars, storeVars, xVars, lockVars>>

NextValidate == call_validate

\* a ContentValidator with its settings, and the document it is about to
\* validate
InitValidate ==
    /\ call \in {[NoCall EXCEPT !.fn = "validate", !.args = <<content>>,
                                !.settings = settings] :
                    content \in Documents,
                    settings \in {DefaultSettings, LowSettings}}
    /\ RegistryEmpty
    /\ JobCreated(NoRequest)
    /\ NoExtract

SpecValidate == InitValidate /\ [][NextValidate]_vars

-----------------------------------------------------------------------------
(* PageAnalyzer.analyze and reanalyze called on their own. *)

call_analyze ==
    /\ call.fn = "analyze"
    /\ call.res = NoValidation
    /\ call' = [call EXCEPT
                   !.res = analyze(call.args[1], LLMOutcome(call.args[2]))]
    /\ UNCHANGED <<regVars, jobVars, storeVars, xVars, lockVars>>

call_reanalyze ==
    /\ call.fn = "reanalyze"
    /\ call.res = NoValidation
    /\ call' = [call EXCEPT
                   !.res = reanalyze(call.args[1], LLMOutcome(call.args[2]))]
    /\ UNCHANGED <<regVars, jobVars, storeVars, xVars, lockVars>>

NextAnalyze == call_analyze \/ call_reanalyze

\* a PageAnalyzer with or without a credential, the html it is given and
\* the answer the model is about to give
InitAnalyze ==
    /\ call \in {[NoCall EXCEPT !.fn = fn, !.args = <<html, response>>] :
                    fn \in {"analyze", "reanalyze"},
                    html \in AnalyzeHtmls,
                    response \in Responses}
    /\ RegistryEmpty
    /\ JobCreated(NoRequest)
    /\ ExtractIdle({})
    /\ max_retry = 0
    /\ api_key \in BOOLEAN

SpecAnalyze == InitAnalyze /\ [][NextAnalyze]_vars

-----------------------------------------------------------------------------
(* One job and its waiter, the waiter scheduled fairly: the event loop runs  *)
(* a coroutine whose await has completed, and the timeout of wait_for fires. *)

\* a step of the coroutine inside wait_if_paused
wait_if_paused_step(w) ==
    /\ \/ wait_if_paused_wake(w)
       \/ wait_if_paused_timeout(w)
       \/ wait_if_paused_recheck(w)
    /\ UNCHANGED <<jobVars, storeVars, xVars, fnVars, lockVars>>

NextWait ==
    \/ register_job(J) /\ UNCHANGED <<jobVars, storeVars, xVars, fnVars, lockVars>>
    \/ unregister_job(J) /\ UNCHANGED <<jobVars, storeVars, xVars, fnVars, lockVars>>
    \/ cancel_job(J) /\ UNCHANGED <<jobVars, storeVars, xVars, fnVars, lockVars>>
    \/ pause_job(J) /\ UNCHANGED <<jobVars, storeVars, xVars, fnVars, lockVars>>
    \/ resume_job(J) /\ UNCHANGED <<jobVars, storeVars, xVars, fnVars, lockVars>>
    \/ mark_completed(J) /\ UNCHANGED <<jobVars, storeVars, xVars, fnVars, lockVars>>
    \/ \E w \in Waiters :
            wait_if_paused_enter(w, J)
            /\ UNCHANGED <<jobVars, storeVars, xVars, fnVars, lockVars>>
    \/ \E w \in Waiters : wait_if_paused_step(w)

InitWait == InitRegistry /\ JobCreated(NoRequest) /\ NoExtract

SpecWait ==
    /\ InitWait
    /\ [][NextWait]_vars
    /\ \A w \in Waiters : WF_vars(wait_if_paused_step(w))

-----------------------------------------------------------------------------
(* Claims *)

\* C1: cancelled is terminal in the registry: a cancelled job stays cancelled
\* until its record is unregistered or re-registered, and completed is only
\* ever entered from running or paused.
C1_CancelledIsTerminal ==
    [][\A j \in JobIds :
          /\ jobs[j].state = CANCELLED =>
                \/ jobs'[j].state = CANCELLED
                \/ jobs'[j] = NoJob
                \/ lastCall'.op = "register_job" /\ lastCall'.job_id = j
          /\ (jobs'[j].state = COMPLETED /\ jobs[j].state # COMPLETED) =>
                jobs[j].state \in {RUNNING, PAUSED}]_vars

\* C2: wait_if_paused returns True only when the job is registered and not
\* cancelled at the moment of return (so a cancel that succeeds while the
\* caller is blocked makes the call return False).
C2_TrueOnlyIfNotCancelled ==
    \A w \in Waiters :
        (wpc[w] = "done" /\ wret[w]) => wsnap[w] \notin {"absent", CANCELLED}

\* C3: while the job's registry state is paused, the crawl processes no page
\* event: no page is counted or built and on_page_crawled is not invoked.
C3_PausedProcessesNothing ==
    [][(jobs[J].state = PAUSED /\ jobs'[J].state = PAUSED) =>
          (page_count' = page_count /\ delivered' = delivered)]_vars

\* C4: should_stop is evaluated from the registry for every page event before
\* it is processed, a page is processed only if that evaluation was False,
\* and once it was True no later page event is pulled or processed and
\* on_page_crawled is never invoked again.
C4_StopIsObservedAndFinal ==
    /\ [](cpc \in {"callback", "insert"} => lastCheck = consumed)
    /\ [][page_count' # page_count =>
             (~should_stop(J) /\ lastCheck' = consumed)]_vars
    /\ [][observedStop =>
             /\ observedStop'
             /\ consumed' = consumed
             /\ page_count' = page_count
             /\ delivered' = delivered]_vars

\* C4 witness: the loop broke on should_stop with page events still unread
C4_Witness ==
    /\ observedStop
    /\ cpc = "returned"
    /\ consumed < req.pages
    /\ page_count > 0

\* C5: the retry budget is exact: an Auto extraction never re-infers more
\* than max_retry times, and one whose every validation failed has made
\* exactly max_retry reanalyze calls and returns a raw-fallback result with
\* no strategy; a raw fallback is returned in no other case.
C5_RetryBudgetExact ==
    \A p \in Procs :
        /\ nReanalyze[p] <= max_retry
        /\ (xpc[p] = "done" /\ allInvalid[p]
                /\ xmode[p].extraction_mode = "auto") =>
               /\ nReanalyze[p] = max_retry
               /\ retry_count[p] = max_retry
               /\ result[p] = [kind |-> "raw_fallback", config |-> 0,
                               used_cache |-> FALSE]
        /\ (xpc[p] = "done" /\ result[p].kind = "raw_fallback") =>
               allInvalid[p]

\* C5 witness: with max_retry = 2 every validation failed and the extraction
\* has returned the raw fallback after two re-inferences
C5_Witness ==
    /\ max_retry = 2
    /\ xpc["p1"] = "done"
    /\ allInvalid["p1"]
    /\ nReanalyze["p1"] = 2
    /\ result["p1"].kind = "raw_fallback"

\* C6: after every re-inference of the retry loop the confidence written
\* into the strategy, and the confidence persisted for it, is at most 0.7,
\* whichever inference path produced it.
C6_ReinferenceCapped ==
    \A p \in Procs :
        nReanalyze[p] > 0 =>
            /\ cfg[p].confidence <= 70
            /\ xpc[p] = "refetch" => rows[cfg[p].id].confidence <= 70

\* C7: the table holds at most one row for each path_pattern of the domain,
\* whatever saves were made and however their selects and writes interleave.
C7_OneRowPerKey ==
    \A i, k \in RowIds :
        rows[i].path_pattern = rows[k].path_pattern => i = k

\* C8: save_config is idempotent on the key: a save for a key with no row
\* inserts one row and returns its new id; a save for a key that has a row
\* returns that row's id and leaves the number of rows unchanged; the second
\* save of an extraction returns the id its first save returned.
C8_SaveIdempotent ==
    [][\A p \in Procs :
          (xpc[p] \in {"write_new", "write_again"} /\ xpc'[p] # xpc[p]) =>
              LET existing == {i \in RowIds :
                                  rows[i].path_pattern = cfg[p].path_pattern}
              IN /\ IF existing = {}
                    THEN /\ Len(rows') = Len(rows) + 1
                         /\ saveRet'[p] = Len(rows')
                    ELSE /\ Len(rows') = Len(rows)
                         /\ saveRet'[p] \in existing
                 /\ rows'[saveRet'[p]].path_pattern = cfg[p].path_pattern
                 /\ xpc[p] = "write_again" => saveRet'[p] = cfg[p].id]_vars

\* C8 witness: the second save for a key has returned the id of the first
\* and the table still holds the one row
C8_Witness ==
    /\ xpc["p1"] = "refetch"
    /\ nReanalyze["p1"] = 1
    /\ saveRet["p1"] = cfg["p1"].id
    /\ saveRet["p1"] = 1
    /\ Len(rows) = 1

\* C9: the counters of a row are exactly the numbers of record_success and
\* record_failure calls made for it, however the concurrent callers
\* interleave, and each call leaves the other counter alone.
C9_CountersExact ==
    \A id \in RowIds :
        /\ rows[id].success_count = succCalls[id]
        /\ rows[id].failure_count = failCalls[id]

\* C9 witness: both callers have recorded on the same row, successes and
\* failures interleaved
C9_Witness ==
    /\ Len(rows) >= 1
    /\ rows[1].success_count = 2
    /\ rows[1].failure_count = 1
    /\ runs = MaxCalls

\* C10: cancel_job always returns a boolean; for an unknown, cancelled or
\* completed job it returns False and leaves the registry unchanged; from
\* running or paused it sets the state to cancelled, sets the pause event and
\* returns True.
C10_CancelContract ==
    [][\A j \in JobIds :
          (lastCall' # lastCall /\ lastCall'.op = "cancel_job"
             /\ lastCall'.job_id = j) =>
             IF jobs[j] = NoJob \/ jobs[j].state \in {CANCELLED, COMPLETED}
             THEN /\ lastCall'.ret = "False"
                  /\ jobs' = jobs
                  /\ events' = events
             ELSE /\ lastCall'.ret = "True"
                  /\ jobs'[j].state = CANCELLED
                  /\ jobs'[j].pause_event = jobs[j].pause_event
                  /\ events'[jobs[j].pause_event]
                  /\ \A k \in JobIds \ {j} : jobs'[k] = jobs[k]]_vars

\* C10 witness: a paused job with a blocked waiter has just been cancelled
C10_Witness ==
    /\ lastCall = [op |-> "cancel_job", job_id |-> "j1", before |-> PAUSED,
                   ret |-> "True"]
    /\ jobs["j1"].state = CANCELLED
    /\ wpc["w1"] = "waiting"
    /\ wjob["w1"] = "j1"
    /\ events[wev["w1"]]


\* C11: pause_job returns True exactly when the job is registered and
\* running; then the state becomes paused and the job's pause event is
\* cleared; in every other case it returns False and changes nothing.
C11_PauseContract ==
    [][\A j \in JobIds :
          (lastCall' # lastCall /\ lastCall'.op = "pause_job"
             /\ lastCall'.job_id = j) =>
             IF jobs[j] # NoJob /\ jobs[j].state = RUNNING
             THEN /\ lastCall'.ret = "True"
                  /\ jobs'[j].state = PAUSED
                  /\ jobs'[j].pause_event = jobs[j].pause_event
                  /\ ~events'[jobs[j].pause_event]
                  /\ \A k \in JobIds \ {j} : jobs'[k] = jobs[k]
             ELSE /\ lastCall'.ret = "False"
                  /\ jobs' = jobs
                  /\ events' = events]_vars

\* C11 witness: a running job has just been paused and its event is clear
C11_Witness ==
    /\ lastCall = [op |-> "pause_job", job_id |-> "j1", before |-> RUNNING,
                   ret |-> "True"]
    /\ jobs["j1"].state = PAUSED
    /\ ~events[jobs["j1"].pause_event]

\* C12: resume_job returns True exactly when the job is registered and
\* paused; then the state becomes running and the pause event is set;
\* otherwise it returns False and changes nothing.  In particular a resume
\* that follows the successful cancel of a paused job returns False and the
\* job stays cancelled.
C12_ResumeContract ==
    /\ [][\A j \in JobIds :
            (lastCall' # lastCall /\ lastCall'.op = "resume_job"
               /\ lastCall'.job_id = j) =>
               IF jobs[j] # NoJob /\ jobs[j].state = PAUSED
               THEN /\ lastCall'.ret = "True"
                    /\ jobs'[j].state = RUNNING
                    /\ jobs'[j].pause_event = jobs[j].pause_event
                    /\ events'[jobs[j].pause_event]
                    /\ \A k \in JobIds \ {j} : jobs'[k] = jobs[k]
               ELSE /\ lastCall'.ret = "False"
                    /\ jobs' = jobs
                    /\ events' = events]_vars
    /\ [][\A j \in JobIds :
            (/\ lastCall = [op |-> "cancel_job", job_id |-> j,
                            before |-> PAUSED, ret |-> "True"]
             /\ lastCall'.op = "resume_job"
             /\ lastCall'.job_id = j) =>
               /\ lastCall'.ret = "False"
               /\ jobs'[j].state = CANCELLED]_vars

\* C12 witness: resume has just been refused for a cancelled job
C12_Witness ==
    /\ lastCall = [op |-> "resume_job", job_id |-> "j1",
                   before |-> CANCELLED, ret |-> "False"]
    /\ jobs["j1"].state = CANCELLED

\* C13: should_stop(job_id) is true exactly when the job is not in the
\* registry or its state is cancelled; it is false for a running, a paused
\* and a completed job, and true for the job just unregistered.
C13_ShouldStopIffGoneOrCancelled ==
    /\ \A j \in JobIds :
          /\ should_stop(j) <=> get_job_state(j) \in {"absent", CANCELLED}
          /\ get_job_state(j) \in {RUNNING, PAUSED, COMPLETED} =>
                ~should_stop(j)
    /\ lastCall.op = "unregister_job" => should_stop(lastCall.job_id)

\* C13 witness: a paused job was unregistered while another one is completed
C13_Witness ==
    /\ lastCall = [op |-> "unregister_job", job_id |-> "j1",
                   before |-> PAUSED, ret |-> "None"]
    /\ should_stop("j1")
    /\ jobs["j2"].state = COMPLETED
    /\ ~should_stop("j2")

\* C14: wait_if_paused called for an unknown or cancelled job returns False
\* at once; called for a running job it finds the event it then waits on
\* already set, and while the job stays running that event stays set, so the
\* call returns True without a resume and without a poll tick.
C14_NoWaitWhenNothingToWaitFor ==
    /\ [][\A w \in Waiters :
            (/\ wpc[w] \in {"idle", "done"}
             /\ <<wpc'[w], wjob'[w], wev'[w], wret'[w], wsnap'[w]>>
                   # <<wpc[w], wjob[w], wev[w], wret[w], wsnap[w]>>) =>
               LET j == wjob'[w] IN
               /\ get_job_state(j) \in {"absent", CANCELLED} =>
                     (wpc'[w] = "done" /\ ~wret'[w])
               /\ get_job_state(j) = RUNNING =>
                     (wpc'[w] = "waiting" /\ events'[wev'[w]])]_vars
    /\ [](\A w \in Waiters :
            (/\ wpc[w] = "waiting"
             /\ jobs[wjob[w]].state = RUNNING
             /\ jobs[wjob[w]].pause_event = wev[w]) => events[wev[w]])
    /\ [][\A w \in Waiters :
            (wpc[w] = "waiting" /\ events[wev[w]] /\ wpc'[w] # "waiting") =>
               (wpc'[w] = "done" /\ wret'[w])]_vars

\* C14 witness: a call for a running job has returned True
C14_Witness ==
    /\ wpc["w1"] = "done"
    /\ wret["w1"]
    /\ wsnap["w1"] = RUNNING
    /\ lastCall.op = "register_job"

\* C15: a waiter inside wait_if_paused whose job is not paused (after a
\* cancel, a resume, an unregister or a mark_completed) returns, unless the
\* job is paused again first; and the re-check of a poll tick that finds the
\* job not paused ends the call.
C15_WaiterUnblocks ==
    /\ \A w \in Waiters :
          (wpc[w] \in {"waiting", "timeout"} /\ jobs[wjob[w]].state # PAUSED)
             ~> (wpc[w] = "done" \/ jobs[wjob[w]].state = PAUSED)
    /\ [][\A w \in Waiters :
            (/\ wpc[w] = "timeout"
             /\ wpc'[w] # "timeout"
             /\ jobs[wjob[w]].state # PAUSED) => wpc'[w] = "done"]_vars

\* C15 witness: the poll tick of a waiter blocked on a paused job that has
\* been marked completed since
C15_Witness ==
    /\ wpc["w1"] = "timeout"
    /\ jobs["j1"].state = COMPLETED
    /\ lastCall.op = "mark_completed"
    /\ ~events[wev["w1"]]

\* C16: get_config_for_url returns None only when no stored pattern matches
\* the path, and otherwise a matching row of the most specific kind: an
\* exact pattern before a prefix pattern ending in "/*", a prefix pattern
\* before the wildcard "*".
C16_MostSpecificMatch ==
    [][(call' # call /\ call'.fn = "get_config_for_url") =>
          LET path == call'.args[1]
              matching == {i \in RowIds :
                              _match_path(path, rows[i].path_pattern)}
              rank(i) == IF rows[i].path_pattern = <<"*">> THEN 1
                         ELSE IF endswith(rows[i].path_pattern, <<"/", "*">>)
                              THEN 2 ELSE 3
          IN IF matching = {} THEN call'.int = 0
             ELSE /\ call'.int \in matching
                  /\ \A k \in matching : rank(call'.int) >= rank(k)]_vars

\* C17: "*" matches every path; a pattern ending in "/*" matches every path
\* under its prefix and no path outside it; any other pattern matches
\* exactly when the glob comparison of the trimmed path and the trimmed
\* pattern does.
C17_MatchPath ==
    [][(call' # call /\ call'.fn = "_match_path") =>
          LET path == rstrip(call'.args[1])
              pattern == rstrip(call'.args[2])
              prefix == SubSeq(pattern, 1, Len(pattern) - 2)
          IN IF call'.args[2] = <<"*">> THEN call'.bool
             ELSE IF endswith(pattern, <<"/", "*">>)
                  THEN /\ startswith(path, prefix \o <<"/">>) => call'.bool
                       /\ (path # prefix
                             /\ ~startswith(path, prefix \o <<"/">>)) =>
                             ~call'.bool
                  ELSE call'.bool <=> fnmatch(path, pattern)]_vars

\* C18: the derived pattern of a path is "/" + its first two non-empty
\* segments + "/*"; with one non-empty segment "/" + segment + "/*"; with
\* none "*".
C18_DerivedPattern ==
    [][(call' # call /\ call'.fn = "extract_path_pattern") =>
          LET path == call'.args[1]
              starts == {i \in 1 .. Len(path) :
                            path[i] # "/" /\ (i = 1 \/ path[i - 1] = "/")}
              segEnd(i) == CHOOSE e \in i .. Len(path) :
                              /\ \A m \in i .. e : path[m] # "/"
                              /\ (e = Len(path) \/ path[e + 1] = "/")
              seg(i) == SubSeq(path, i, segEnd(i))
              first == CHOOSE i \in starts : \A k \in starts : i <= k
              second == CHOOSE i \in starts \ {first} :
                            \A k \in starts \ {first} : i <= k
          IN call'.str =
                IF starts = {} THEN <<"*">>
                ELSE IF Cardinality(starts) = 1
                     THEN <<"/">> \o seg(first) \o <<"/", "*">>
                     ELSE <<"/">> \o seg(first) \o <<"/">> \o seg(second)
                          \o <<"/", "*">>]_vars

\* C19: validate applies its checks in a fixed order and always returns one
\* of four statuses: content that is missing, empty or all white space is
\* empty; otherwise a trimmed length below min_content_length is too_short;
\* otherwise a number of words below min_word_count is too_short; otherwise
\* content the navigation heuristic accepts is low_quality; otherwise the
\* content is ok.  is_valid is true exactly when the status is ok, and the
\* status is never selector_not_found.  The trimmed length and the number of
\* words are counted here position by position, not by strip and split.
C19_ValidatePrecedence ==
    [][(call' # call /\ call'.fn = "validate") =>
        LET content == call'.args[1]
            self == call'.settings
            r == call'.res
            n == Len(content)
            blank == content = None \/ \A i \in 1 .. n : IsSpace(content[i])
            lead == Cardinality({i \in 1 .. n :
                                    \A j \in 1 .. i : IsSpace(content[j])})
            trail == Cardinality({i \in 1 .. n :
                                    \A j \in i .. n : IsSpace(content[j])})
            trimmed == n - lead - trail
            words == Cardinality({i \in 1 .. n :
                        /\ ~IsSpace(content[i])
                        /\ (i = 1 \/ IsSpace(content[i - 1]))})
        IN /\ r.status =
                (IF blank THEN "empty"
                 ELSE IF trimmed < self.min_content_length THEN "too_short"
                 ELSE IF words < self.min_word_count THEN "too_short"
                 ELSE IF _is_navigation_content(ws_strip(content))
                 THEN "low_quality"
                 ELSE "ok")
           /\ r.is_valid <=> (r.status = "ok")
           /\ r.status # "selector_not_found"
           /\ ~blank => r.content_length = trimmed /\ r.word_count = words
    ]_vars

\* validate has returned too_short for a document that is long enough, has
\* too few words, and that the navigation heuristic accepts
C19_Witness ==
    /\ call.fn = "validate"
    /\ call.res.status = "too_short"
    /\ call.res.content_length >= call.settings.min_content_length
    /\ call.res.word_count < call.settings.min_word_count
    /\ _is_navigation_content(ws_strip(call.args[1]))

\* C20 as stated: with the default minimums, validate returns low_quality
\* for every document of 30 lines that are each shorter than 20 characters.
C20_ThirtyShortLinesLowQuality ==
    [][(/\ call' # call
        /\ call'.fn = "validate"
        /\ call'.settings = DefaultSettings
        /\ call'.args[1] # None
        /\ len(split_lines(call'.args[1])) = 30
        /\ \A i \in DOMAIN split_lines(call'.args[1]) :
                Len(split_lines(call'.args[1])[i]) < 20)
       => call'.res.status = "low_quality"
    ]_vars

\* C20, amended: with the default minimums, validate returns low_quality
\* for a document of 30 lines that are each shorter than 20 characters
\* exactly when the trimmed document has at least 100 characters and at
\* least 20 words and at least 5 of its lines are not blank; it returns
\* empty, too_short or ok for the others.
C20_ThirtyShortLinesAmended ==
    [][(/\ call' # call
        /\ call'.fn = "validate"
        /\ call'.settings = DefaultSettings
        /\ call'.args[1] # None
        /\ len(split_lines(call'.args[1])) = 30
        /\ \A i \in DOMAIN split_lines(call'.args[1]) :
                Len(split_lines(call'.args[1])[i]) < 20)
       => LET content == call'.args[1]
              n == Len(content)
              lead == Cardinality({i \in 1 .. n :
                                    \A j \in 1 .. i : IsSpace(content[j])})
              trail == Cardinality({i \in 1 .. n :
                                    \A j \in i .. n : IsSpace(content[j])})
              words == Cardinality({i \in 1 .. n :
                          /\ ~IsSpace(content[i])
                          /\ (i = 1 \/ IsSpace(content[i - 1]))})
              nonblank == Cardinality({i \in DOMAIN split_lines(content) :
                              \E k \in 1 .. Len(split_lines(content)[i]) :
                                  ~IsSpace(split_lines(content)[i][k])})
          IN /\ (call'.res.status = "low_quality") <=>
                    (n - lead - trail >= 100 /\ words >= 20 /\ nonblank >= 5)
             /\ call'.res.status \in {"low_quality", "empty", "too_short", "ok"}
    ]_vars

\* validate with the default minimums has returned low_quality for a
\* document of 30 lines that are each shorter than 20 characters
C20_Witness ==
    /\ call.fn = "validate"
    /\ call.settings = DefaultSettings
    /\ call.args[1] # None
    /\ len(split_lines(call.args[1])) = 30
    /\ \A i \in DOMAIN split_lines(call.args[1]) :
            Len(split_lines(call.args[1])[i]) < 20
    /\ call.res.status = "low_quality"

\* C21: in Auto single-page extraction the first fetch is made under a
\* cached strategy exactly when force_reanalyze is not set and the store
\* returns a strategy for the url whose confidence is at least
\* min_confidence (a stored confidence of 0.4 is below the floor of 0.5);
\* in every other case, before the first fetch, exactly one analyze call is
\* made, its strategy is saved, and the page is fetched under the strategy
\* as saved.
C21_CacheOrOneInference ==
    /\ [][\A p \in Procs :
            (xpc[p] = "lookup" /\ xpc'[p] # "lookup") =>
                LET existing == get_config_for_url(xurl[p]) IN
                /\ xpc'[p] \in {"cached_fetch", "analyze"}
                /\ (xpc'[p] = "cached_fetch") <=>
                       /\ ~xforce[p]
                       /\ existing # 0
                       /\ rows[existing].confidence >= min_confidence
                /\ xpc'[p] = "cached_fetch" =>
                       /\ cfg'[p].id = existing
                       /\ cfg'[p].confidence = rows[existing].confidence
                       /\ cfg'[p].css_selector = rows[existing].css_selector
       ]_vars
    /\ [](\A p \in Procs :
            LET fetches == {i \in 1 .. Len(xlog[p]) :
                               xlog[p][i] = "_crawl_with_config"}
                first == CHOOSE i \in fetches : \A k \in fetches : i <= k
                before == SubSeq(xlog[p], 1, first - 1)
            IN (xmode[p].extraction_mode = "auto" /\ fetches # {}) =>
                  /\ before \in {<<"get_config_for_url">>,
                                 <<"get_config_for_url", "analyze",
                                   "save_config">>,
                                 <<"analyze", "save_config">>}
                  /\ xforce[p] <=> (before = <<"analyze", "save_config">>))
    /\ [](\A p \in Procs :
            xpc[p] = "first_fetch" =>
                /\ cfg[p].id \in RowIds
                /\ rows[cfg[p].id].css_selector = cfg[p].css_selector
                /\ rows[cfg[p].id].confidence = cfg[p].confidence
                /\ rows[cfg[p].id].path_pattern = cfg[p].path_pattern)

\* an extraction that is not forced finds a stored strategy of confidence
\* 0.4 for its url, infers again, saves and is about to fetch
C21_Witness ==
    /\ xpc["p1"] = "first_fetch"
    /\ ~xforce["p1"]
    /\ xlog["p1"] = <<"get_config_for_url", "analyze", "save_config">>
    /\ succCalls[cfg["p1"].id] + failCalls[cfg["p1"].id] > 0
    /\ cfg["p1"].confidence = 40

\* C22: a single-page extraction with Manual or Preset intent makes one
\* fetch under its strategy and returns, whatever the validation says: it
\* does not read or write the store, does not call analyze or reanalyze and
\* does not enter the retry loop.  The Preset strategy is the entry of the
\* built-in table that the preset names, and the generic entry when no
\* preset is named or the name has no entry.
C22_ManualPresetFrame ==
    /\ [](\A p \in Procs :
            xmode[p].extraction_mode \in {"manual", "preset"} =>
                /\ xlog[p] \in {<<>>, <<"_crawl_with_config", "valid">>,
                                 <<"_crawl_with_config", "invalid">>}
                /\ nReanalyze[p] = 0
                /\ retry_count[p] = 0
                /\ xpc[p] \in {"manual", "preset", "done", "idle"}
                /\ (xpc[p] = "done") <=> (xlog[p] # <<>> /\ xpc[p] # "idle")
                /\ (xpc[p] = "done"
                        /\ xmode[p].extraction_mode = "preset") =>
                       cfg[p].css_selector =
                           CASE xmode[p].preset = "docusaurus" ->
                                    ".theme-doc-markdown.markdown"
                             [] xmode[p].preset = "GitBook" ->
                                    ".markdown-section"
                             [] OTHER -> "main")
    /\ [][\A p \in Procs :
            (xpc[p] \in {"manual", "preset"} /\ xpc'[p] # xpc[p]) =>
                /\ UNCHANGED storeVars
                /\ xpc'[p] = "done"
       ]_vars

\* a Preset extraction under a name with no entry has fetched a page that
\* fails validation, with a strategy stored for its url, and has returned
C22_Witness ==
    /\ xpc["p1"] = "done"
    /\ xmode["p1"] = [extraction_mode |-> "preset", preset |-> "nosuch"]
    /\ xlog["p1"] = <<"_crawl_with_config", "invalid">>
    /\ get_config_for_url(xurl["p1"]) # 0
    /\ cfg["p1"].css_selector = "main"

\* C23: the raw fallback is used only when the retry budget is spent: an
\* extraction returns a raw-fallback result only with retry_count equal to
\* max_retry, after max_retry + 1 validations that all failed; that result
\* is marked raw_fallback and carries no strategy; and an extraction one of
\* whose validations succeeded returns the extraction made under its
\* strategy, with no raw crawl made.
C23_RawFallbackOnlyAfterBudget ==
    \A p \in Procs :
        LET count(op) == Cardinality({i \in 1 .. Len(xlog[p]) :
                                         xlog[p][i] = op})
        IN /\ count("_crawl_raw") > 0 =>
                /\ xpc[p] \in {"done", "idle"}
                /\ xlog[p][Len(xlog[p])] = "_crawl_raw"
                /\ count("_crawl_raw") = 1
                /\ retry_count[p] = max_retry
                /\ count("valid") = 0
                /\ count("invalid") = max_retry + 1
                /\ result[p] = [kind |-> "raw_fallback", config |-> 0,
                                used_cache |-> FALSE]
           /\ (xpc[p] = "done" /\ result[p].kind = "raw_fallback") =>
                count("_crawl_raw") = 1
           /\ (xpc[p] = "done" /\ count("valid") > 0
                    /\ xmode[p].extraction_mode = "auto") =>
                /\ result[p].kind = "strategy"
                /\ result[p].config = cfg[p].id
                /\ result[p].config # 0
                /\ xlog[p][Len(xlog[p])] = "record_success"
                /\ count("valid") = 1

\* with max_retry = 1 a cached strategy and its one re-inference both
\* failed validation and the extraction has returned the raw fallback
C23_Witness ==
    /\ max_retry = 1
    /\ xpc["p1"] = "done"
    /\ result["p1"].kind = "raw_fallback"
    /\ xlog["p1"] = <<"get_config_for_url", "_crawl_with_config", "invalid",
                      "record_failure", "reanalyze", "save_config",
                      "_crawl_with_config", "invalid", "record_failure",
                      "_crawl_raw">>

\* C24: single-page extraction terminates when its fetches and inference
\* calls return: a run makes at most max_retry reanalyze calls, retry_count
\* goes up by exactly one at each revalidation that fails and changes at no
\* other step of the run, nothing but record_success follows a validation
\* that succeeds, and every run that has started returns.
C24_ExtractionTerminates ==
    /\ [](\A p \in Procs :
            LET n == Len(xlog[p])
                count(op) == Cardinality({i \in 1 .. n : xlog[p][i] = op})
            IN /\ count("reanalyze") <= max_retry
               /\ retry_count[p] <= max_retry
               /\ \A i \in 1 .. n :
                      xlog[p][i] = "valid" =>
                          /\ xpc[p] \in {"done", "idle"}
                          /\ \A k \in (i + 1) .. n :
                                 xlog[p][k] = "record_success")
    /\ [][\A p \in Procs :
            /\ (xpc[p] = "refetch" /\ xpc'[p] = "retry") =>
                   retry_count'[p] = retry_count[p] + 1
            /\ (retry_count'[p] # retry_count[p] /\ xpc[p] # "idle") =>
                   /\ xpc[p] = "refetch"
                   /\ xpc'[p] = "retry"
                   /\ xlog'[p][Len(xlog'[p])] \in {"invalid", "record_failure"}
       ]_vars
    /\ \A p \in Procs : (xpc[p] \notin {"idle", "done"}) ~> (xpc[p] = "done")

\* with max_retry = 2 the first validation and the first retry fail and the
\* second retry validates: the extraction has returned its strategy
C24_Witness ==
    /\ max_retry = 2
    /\ xpc["p1"] = "done"
    /\ retry_count["p1"] = 1
    /\ nReanalyze["p1"] = 2
    /\ result["p1"].kind = "strategy"

\* C25: every completion webhook that was posted carries the terminal
\* information of the durable record: its status is the status the
\* background task recorded (completed, cancelled or failed), and its
\* pages_crawled and error are the record's.
C25_WebhookMatchesRecord ==
    \A i \in 1 .. Len(webhook) :
        /\ db.status \in {"completed", "cancelled", "failed"}
        /\ webhook[i].payload.status = db.status
        /\ webhook[i].payload.pages_crawled = db.pages_crawled
        /\ webhook[i].payload.error = db.error

\* C26: a job with a webhook URL has its webhook attempted exactly once on
\* every path on which the background task ends, the attempt comes after
\* the durable record has its terminal status, and the attempt, sent or
\* not, is not repeated and changes neither the record nor the registry.
C26_WebhookExactlyOnce ==
    /\ [](/\ Len(webhook) <= 1
          /\ Len(webhook) = 1 =>
                /\ req.webhook_url
                /\ bpc = "done"
                /\ db.status \in {"completed", "cancelled", "failed"}
          /\ (bpc = "done" /\ req.webhook_url) => Len(webhook) = 1)
    /\ [][webhook' # webhook => (db' = db /\ jobs' = jobs)]_vars

C28_InferenceNeverFails ==
    (call.fn \in {"analyze", "reanalyze"} /\ call.res # NoValidation) =>
        LET html == {word_lower(w) : w \in call.args[1]}
            response == call.args[2]
            n == Len(framework_indicators)
            hit(i) == \E m \in framework_indicators[i][2] : m \in html
        IN /\ call.res # Raised
           /\ call.res.framework_detected # "raised"
           /\ (~api_key \/ response.kind # "object") =>
                /\ \A i \in 1 .. n :
                       (hit(i) /\ \A k \in 1 .. (i - 1) : ~hit(k)) =>
                           /\ call.res.framework_detected
                                  = framework_indicators[i][1]
                           /\ call.res.css_selector
                                  = FRAMEWORK_PRESETS[
                                        framework_indicators[i][1]].css_selector
                           /\ call.res.confidence = 75
                /\ (\A i \in 1 .. n : ~hit(i)) =>
                       /\ call.res.framework_detected = "generic"
                       /\ call.res.css_selector = "main"
                       /\ call.res.confidence = 50

\* with a credential, the model call raised on a page that holds a mkdocs
\* marker and a capitalised gitbook marker: analyze returned the gitbook
\* preset
C28_Witness ==
    /\ api_key
    /\ call.fn = "analyze"
    /\ call.args = <<{"md-content", "GitBook"},
                     [kind |-> "raises", confidence |-> 0]>>
    /\ call.res = [css_selector |-> ".markdown-section",
                   framework_detected |-> "gitbook", confidence |-> 75]

\* C29: the pages_crawled of the durable record never decreases;
\* pages_crawled and progress are changed only by steps of the background
\* task and its crawl, never by a control endpoint; as long as the record
\* is not completed its progress is at most 99; and progress becomes 100
\* only in the write that sets the status to completed.
C29_ProgressAndPagesCrawled ==
    /\ [][/\ db'.pages_crawled >= db.pages_crawled
          /\ (db'.pages_crawled # db.pages_crawled
                  \/ db'.progress # db.progress) =>
                (bpc' # bpc \/ cpc' # cpc)
          /\ (bpc' = bpc /\ cpc' = cpc) =>
                [db' EXCEPT !.status = db.status] = db
          /\ (db'.progress = 100 /\ db.progress # 100) =>
                (db'.status = "completed" /\ db.status # "completed")
         ]_vars
    /\ [](db.progress = 100 => db.status = "completed")
    /\ [](db.status # "completed" => db.progress <= 99)

\* every page of a crawl of max_pages pages was saved, which left the
\* progress at 99, and the job was then recorded as completed with 100
C29_Witness ==
    /\ db.pages_crawled = MaxPages
    /\ Progress(db.pages_crawled) = 99
    /\ db.status = "completed"
    /\ db.progress = 100

\* C30: a site crawl resolves its strategy once, before the first page: it
\* asks the store at most once and makes at most one inference call, saved
\* once; it makes none when it goes on with a stored strategy, whose
\* confidence is then at least the floor; and however many pages follow it
\* never calls the validator, reanalyze, record_success or record_failure,
\* and the success and failure counts in the store stay as they were.
C30_SiteResolvesOnce ==
    /\ [](\A p \in Procs :
            (xlog[p] # <<>> /\ xlog[p][1] = "_resolve_config") =>
                LET n == Len(xlog[p])
                    at(op) == {i \in 1 .. n : xlog[p][i] = op}
                    count(op) == Cardinality(at(op))
                IN /\ count("_resolve_config") = 1
                   /\ count("get_config_for_url") <= 1
                   /\ count("analyze") <= 1
                   /\ count("save_config") <= count("analyze")
                   /\ \A i \in at("analyze") \cup at("save_config")
                                \cup at("get_config_for_url") :
                          \A k \in at("should_stop") : i < k
                   /\ (xpc[p] \in {"site_pages", "done"} /\ cfg[p].id # 0) =>
                         IF count("analyze") = 0
                         THEN /\ count("get_config_for_url") = 1
                              /\ cfg[p].confidence >= min_confidence
                              /\ ~xforce[p]
                         ELSE count("save_config") = 1
                   /\ \A i \in 1 .. n :
                          xlog[p][i] \notin
                              {"validate", "_crawl_with_config", "valid",
                               "invalid", "reanalyze", "record_success",
                               "record_failure", "_crawl_raw"})
    /\ [][\A p \in Procs :
             (xpc[p] \in {"site_resolve", "site_analyze", "save_site",
                          "write_site", "site_pages"}) =>
                 /\ SubSeq(succCalls', 1, Len(succCalls)) = succCalls
                 /\ SubSeq(failCalls', 1, Len(failCalls)) = failCalls
                 /\ \A i \in 1 .. Len(rows) :
                        /\ rows'[i].success_count = rows[i].success_count
                        /\ rows'[i].failure_count = rows[i].failure_count
       ]_vars

\* a site crawl found no stored strategy, inferred and saved one, and
\* streamed two pages, the first fetched with success, before it returned
C30_Witness ==
    /\ xpc["p1"] = "done"
    /\ result["p1"].kind = "site"
    /\ cfg["p1"].id # 0
    /\ xlog["p1"] = <<"_resolve_config", "get_config_for_url", "analyze",
                      "save_config", "should_stop", "_build_crawl_result",
                      "on_page_crawled", "should_stop">>

\* C31: register_job returns without raising and leaves the job with a
\* record in state running whose pause event is set, whatever the job was
\* before (absent, running, paused, cancelled or completed); the event is a
\* new one, which no other job's record and no waiter inside wait_if_paused
\* holds; the records of the other jobs are left as they were.
C31_RegisterResets ==
    [][\A j \in JobIds :
          (lastCall' # lastCall /\ lastCall'.op = "register_job"
             /\ lastCall'.job_id = j) =>
             /\ lastCall'.ret = "None"
             /\ jobs'[j] # NoJob
             /\ jobs'[j].state = RUNNING
             /\ events'[jobs'[j].pause_event]
             /\ \A k \in JobIds \ {j} :
                    /\ jobs'[k] = jobs[k]
                    /\ jobs'[k].pause_event # jobs'[j].pause_event
             /\ \A w \in Waiters :
                    wpc[w] \in {"waiting", "timeout"} =>
                        wev[w] # jobs'[j].pause_event]_vars

\* C31 witness: a paused job with a waiter blocked on its event has just
\* been registered again, and is running with another event, which is set
C31_Witness ==
    /\ lastCall = [op |-> "register_job", job_id |-> "j1", before |-> PAUSED,
                   ret |-> "None"]
    /\ jobs["j1"].state = RUNNING
    /\ events[jobs["j1"].pause_event]
    /\ wpc["w1"] = "waiting"
    /\ wjob["w1"] = "j1"
    /\ wev["w1"] # jobs["j1"].pause_event
    /\ ~events[wev["w1"]]

\* C32: the registry's methods exclude one another: at most one caller is
\* between its read of the record and its write; the registry changes only
\* at the step that ends a method's critical section; and that step, with
\* the value the method returns, is a step of the method taken as one
\* atomic operation on the registry as it is at that moment.  So every
\* interleaving of calls has the returns and the registry of the sequence
\* of the calls in the order of these steps; two cancels of a job that is
\* running cannot both find it running and both return True.
C32_MethodsAtomic ==
    /\ [](Cardinality({c \in Callers :
                          callers[c].pc \in {"check", "write"}}) <= 1)
    /\ [][regVars' # regVars =>
             \E c \in Callers :
                 callers[c].pc = "write" /\ callers'[c].pc = "done"]_vars
    /\ [][\A c \in Callers :
             (callers[c].pc = "write" /\ callers'[c].pc = "done") =>
                 LET op == callers[c].op
                     j == callers[c].job_id
                 IN /\ callers[c].job = jobs[j]
                    /\ CASE op = "register_job" -> register_job(j)
                         [] op = "unregister_job" -> unregister_job(j)
                         [] op = "cancel_job" -> cancel_job(j)
                         [] op = "pause_job" -> pause_job(j)
                         [] op = "resume_job" -> resume_job(j)
                         [] OTHER -> mark_completed(j)
                    /\ lastCall'.ret = callers[c].ret]_vars

\* two callers cancelled the same running job at the same time: the one
\* that came first returned True, the other is about to return False
C32_Witness ==
    /\ callers["c1"] = [pc |-> "done", op |-> "cancel_job", job_id |-> "j1",
                        job |-> [state |-> RUNNING, pause_event |-> 1],
                        ret |-> "True"]
    /\ callers["c2"].pc = "write"
    /\ callers["c2"].op = "cancel_job"
    /\ callers["c2"].job_id = "j1"
    /\ callers["c2"].ret = "False"
    /\ jobs["j1"].state = CANCELLED

\* C33 as stated: in an Auto extraction every fetch and validation is
\* followed by exactly one counter update on the id of the strategy in
\* hand, record_success after a valid outcome (and the extraction returns
\* the strategy), record_failure after an invalid one (and the retry loop
\* is entered or continued), and no counter update is made otherwise; the
\* raw fallback changes no counter; and a strategy that was just inferred
\* and validates on its first fetch ends with success_count 1 and
\* failure_count 0.
C33_CountersFollowValidation ==
    /\ [](\A p \in Procs :
            xmode[p].extraction_mode = "auto" =>
                LET n == Len(xlog[p]) IN
                /\ \A i \in 1 .. n :
                       xlog[p][i] = "_crawl_with_config" =>
                           /\ i + 2 <= n
                           /\ \/ /\ xlog[p][i + 1] = "valid"
                                 /\ xlog[p][i + 2] = "record_success"
                              \/ /\ xlog[p][i + 1] = "invalid"
                                 /\ xlog[p][i + 2] = "record_failure"
                /\ \A i \in 1 .. n :
                       xlog[p][i] \in {"record_success", "record_failure"} =>
                           (i >= 3 /\ xlog[p][i - 2] = "_crawl_with_config"))
    /\ [][\A p \in Procs :
             (xmode[p].extraction_mode = "auto"
                 /\ Len(xlog'[p]) > Len(xlog[p])) =>
                 LET did == xlog'[p][Len(xlog'[p])]
                     id == cfg[p].id
                 IN /\ did = "record_success" =>
                          /\ id \in RowIds
                          /\ rows' = [rows EXCEPT ![id].success_count = @ + 1]
                          /\ succCalls' = [succCalls EXCEPT ![id] = @ + 1]
                          /\ failCalls' = failCalls
                          /\ xpc'[p] = "done"
                          /\ result'[p].kind = "strategy"
                    /\ did = "record_failure" =>
                          /\ id \in RowIds
                          /\ rows' = [rows EXCEPT ![id].failure_count = @ + 1]
                          /\ failCalls' = [failCalls EXCEPT ![id] = @ + 1]
                          /\ succCalls' = succCalls
                          /\ xpc'[p] = "retry"
                    /\ did = "_crawl_raw" =>
                          /\ rows' = rows
                          /\ succCalls' = succCalls
                          /\ failCalls' = failCalls
                          /\ result'[p].kind = "raw_fallback"
       ]_vars
    /\ [](\A p \in Procs :
            (/\ xmode[p].extraction_mode = "auto"
             /\ xpc[p] = "done"
             /\ Len(xlog[p]) >= 5
             /\ SubSeq(xlog[p], Len(xlog[p]) - 4, Len(xlog[p]))
                    = <<"analyze", "save_config", "_crawl_with_config",
                        "valid", "record_success">>) =>
                /\ rows[cfg[p].id].success_count = 1
                /\ rows[cfg[p].id].failure_count = 0)

\* C33 amended: as above, but a strategy that was just inferred and
\* validates on its first fetch ends with success_count 1 and
\* failure_count 0 when save_config inserted its row; when save_config
\* found a row for its path_pattern and updated it, the row keeps its counts
\* and the success is added to them.
C33_CountersFollowValidationAmended ==
    /\ [](\A p \in Procs :
            xmode[p].extraction_mode = "auto" =>
                LET n == Len(xlog[p]) IN
                /\ \A i \in 1 .. n :
                       xlog[p][i] = "_crawl_with_config" =>
                           /\ i + 2 <= n
                           /\ \/ /\ xlog[p][i + 1] = "valid"
                                 /\ xlog[p][i + 2] = "record_success"
                              \/ /\ xlog[p][i + 1] = "invalid"
                                 /\ xlog[p][i + 2] = "record_failure"
                /\ \A i \in 1 .. n :
                       xlog[p][i] \in {"record_success", "record_failure"} =>
                           (i >= 3 /\ xlog[p][i - 2] = "_crawl_with_config"))
    /\ [][\A p \in Procs :
             (xmode[p].extraction_mode = "auto"
                 /\ Len(xlog'[p]) > Len(xlog[p])) =>
                 LET did == xlog'[p][Len(xlog'[p])]
                     id == cfg[p].id
                 IN /\ did = "record_success" =>
                          /\ id \in RowIds
                          /\ rows' = [rows EXCEPT ![id].success_count = @ + 1]
                          /\ succCalls' = [succCalls EXCEPT ![id] = @ + 1]
                          /\ failCalls' = failCalls
                          /\ xpc'[p] = "done"
                          /\ result'[p].kind = "strategy"
                    /\ did = "record_failure" =>
                          /\ id \in RowIds
                          /\ rows' = [rows EXCEPT ![id].failure_count = @ + 1]
                          /\ failCalls' = [failCalls EXCEPT ![id] = @ + 1]
                          /\ succCalls' = succCalls
                          /\ xpc'[p] = "retry"
                    /\ did = "_crawl_raw" =>
                          /\ rows' = rows
                          /\ succCalls' = succCalls
                          /\ failCalls' = failCalls
                          /\ result'[p].kind = "raw_fallback"
       ]_vars
    /\ [](\A p \in Procs :
            (/\ xmode[p].extraction_mode = "auto"
             /\ xpc[p] = "done"
             /\ Len(xlog[p]) >= 5
             /\ SubSeq(xlog[p], Len(xlog[p]) - 4, Len(xlog[p]))
                    = <<"analyze", "save_config", "_crawl_with_config",
                        "valid", "record_success">>
             /\ found[p] = 0) =>
                /\ rows[cfg[p].id].success_count = 1
                /\ rows[cfg[p].id].failure_count = 0)
    /\ [][\A p \in Procs :
             (xpc[p] = "write_new" /\ xpc'[p] = "first_fetch"
                 /\ found[p] # 0) =>
                 /\ cfg'[p].id = found[p]
                 /\ rows'[found[p]].success_count
                        = rows[found[p]].success_count
                 /\ rows'[found[p]].failure_count
                        = rows[found[p]].failure_count]_vars

\* a second extraction of a url inferred a strategy again, because the one
\* stored was under the floor, saved it over the stored row and returned
\* after its first fetch was valid: the row counts two successes
C33_Witness ==
    /\ xpc["p1"] = "done"
    /\ xlog["p1"] = <<"get_config_for_url", "analyze", "save_config",
                      "_crawl_with_config", "valid", "record_success">>
    /\ found["p1"] = 1
    /\ rows[1].success_count = 2
    /\ rows[1].failure_count = 0

C35_EventClearIffPaused ==
    \A j \in JobIds :
        jobs[j] # NoJob =>
            (~events[jobs[j].pause_event] <=> jobs[j].state = PAUSED)

\* C36: once the durable record of a job has a terminal status (completed,
\* failed or cancelled), no later write of the background task or of a
\* cancel, pause or resume request changes it to another status.
C36_TerminalStatusIsFinal ==
    [][db.status \in {"completed", "failed", "cancelled"} =>
          db'.status = db.status]_vars

\* C37: once a cancel request has been accepted (the cancel endpoint wrote
\* status cancelled and answered success), at most the page in progress is
\* saved: with n pages saved when the request is accepted, never more than
\* n + 1 pages are saved afterwards, also when the request arrives while
\* the job is pending and the background task has not registered it yet.
C37_CancelStopsSaving ==
    accepted # NotAccepted => pages_crawled <= accepted + 1

\* C38: a save_config that finds a row for its key overwrites the row's
\* selectors, framework and confidence with the ones saved, leaves its
\* success_count and failure_count and every other row as they were, and
\* adds no row; no step of the store lowers a counter, so the counts
\* recorded before and during a save, by the saving extraction or by a
\* concurrent caller, are all kept.
C38_SaveKeepsCounters ==
    /\ [][\A p \in Procs :
             (/\ xpc[p] \in {"write_new", "write_again", "write_api",
                              "write_site"}
              /\ xpc'[p] # xpc[p]
              /\ found[p] # 0) =>
                 LET data == to_db_dict(cfg[p])
                 IN /\ Len(rows') = Len(rows)
                    /\ rows'[found[p]].css_selector = data.css_selector
                    /\ rows'[found[p]].framework_detected =
                           data.framework_detected
                    /\ rows'[found[p]].confidence = data.confidence
                    /\ rows'[found[p]].success_count =
                           rows[found[p]].success_count
                    /\ rows'[found[p]].failure_count =
                           rows[found[p]].failure_count
                    /\ \A i \in RowIds \ {found[p]} : rows'[i] = rows[i]]_vars
    /\ [][\A i \in RowIds :
             /\ rows'[i].success_count >= rows[i].success_count
             /\ rows'[i].failure_count >= rows[i].failure_count]_vars

\* C38 witness: a save has gone over the one row of the table, which holds
\* the confidence saved and still counts the success and the failure that
\* were recorded on it
C38_Witness ==
    /\ Len(rows) = 1
    /\ xpc["p1"] = "idle"
    /\ found["p1"] = 1
    /\ saveRet["p1"] = 1
    /\ rows[1].confidence = cfg["p1"].confidence
    /\ rows[1].success_count = 1
    /\ rows[1].failure_count = 1
    /\ runs = MaxCalls

\* C39: for every url path, the pattern extract_path_pattern derives from
\* the path matches that path under _match_path, so that the strategy an
\* inference saves for a url is one get_config_for_url can return for it.
C39_DerivedPatternMatches ==
    call.fn = "extract_path_pattern" =>
        _match_path(call.args[1], call.str)

\* C40: for Manual and Preset intents a site crawl resolves its seed to the
\* strategy a single-page extraction of the same request uses: the
\* caller's selectors for Manual, the entry of the built-in table that the
\* preset names for Preset, and the generic entry when no preset is named
\* or the name has no entry; and it does so without asking the store,
\* without an inference and without a save.
C40_SiteSeedAgreesWithSinglePage ==
    \A p \in Procs :
        (/\ xmode[p].extraction_mode \in {"manual", "preset"}
         /\ xlog[p] # <<>>
         /\ xlog[p][1] = "_resolve_config") =>
            /\ \A i \in 1 .. Len(xlog[p]) :
                   xlog[p][i] \notin {"get_config_for_url", "analyze",
                                      "save_config"}
            /\ xpc[p] \notin {"site_analyze", "save_site", "write_site"}
            /\ xpc[p] = "site_pages" =>
                   cfg[p].css_selector =
                       IF xmode[p].extraction_mode = "manual"
                       THEN "css_selector"
                       ELSE LET preset_name ==
                                    IF xmode[p].preset = "none"
                                    THEN "generic" ELSE xmode[p].preset
                            IN IF get_framework_preset(preset_name) # "none"
                               THEN get_framework_preset(preset_name)
                               ELSE FRAMEWORK_PRESETS["generic"].css_selector

=============================================================================
